---- MODULE Spec2Model ----
(***************************************************************************)
(* Agent negotiation subsystem of the Monopoly simulator:                  *)
(*   - LLMPlayer.execute_llm_trade   (trade executor)                      *)
(*   - LLMPlayer.negotiate_trade     (bounded counter-offer protocol)      *)
(*   - ActionParser.parse_negotiation_response, parse_trade_proposal,      *)
(*     parse_batched_strategy                                              *)
(*   - LlamaChat / GeminiChat.send_message (Transport with retry, backoff) *)
(*   - LLMPlayer.make_a_move and the game loop of monopoly_game_llm        *)
(* Texts are sequences of word tokens; a property name is the sequence of  *)
(* its words, and Python's substring test is the contiguous-subsequence    *)
(* test on words.                                                          *)
(***************************************************************************)
EXTENDS Integers, Sequences, FiniteSets, TLC

(***************************************************************************)
(* Bounds of the model.                                                    *)
(***************************************************************************)
\* most property names in one proposal handed to the executor (give + receive)
MaxNames == 2
\* cap on the prompts of one negotiation (never binding for the code as written)
MaxCalls == 9
\* most send_message calls on one chat
MaxSends == 2
\* turns of one game (SimulationSettings.n_moves)
MaxTurns == 4
MaxSession == 1

(***************************************************************************)
(* The game: players, properties, names.                                   *)
(***************************************************************************)
LLMPlayers == {"LLM1", "LLM2"}
Players == LLMPlayers \cup {"BOB"}
NoPlayer == "None"

Props == {1, 2}
NameOf == (1 :> <<"Park", "Place">>) @@ (2 :> <<"Boardwalk">>)

\* str.upper() on one word
UpperWord(w) ==
    CASE w = "Park" -> "PARK"
      [] w = "Place" -> "PLACE"
      [] w = "Boardwalk" -> "BOARDWALK"
      [] w = "trade_accept" -> "TRADE_ACCEPT"
      [] w = "reject" -> "REJECT"
      [] w = "trade_counter" -> "TRADE_COUNTER"
      [] w = "park" -> "PARK"
      [] w = "llm2" -> "LLM2"
      [] w = "a)" -> "A)"
      [] w = "b)" -> "B)"
      [] w = "improve" -> "IMPROVE"
      [] OTHER -> w

upper(s) == [i \in 1..Len(s) |-> UpperWord(s[i])]

\* Python's `a in b` on strings
IsIn(a, b) ==
    \E i \in 0..(Len(b) - Len(a)) : SubSeq(b, i + 1, i + Len(a)) = a

Range(s) == {s[i] : i \in 1..Len(s)}

\* list.remove(x): drops the first occurrence (the caller has checked membership)
RECURSIVE Remove(_, _)
Remove(s, x) ==
    IF s = <<>> THEN <<>>
    ELSE IF Head(s) = x THEN Tail(s)
    ELSE <<Head(s)>> \o Remove(Tail(s), x)

\* next((p for p in owned_list if prop_name.upper() in p.name.upper()), None); 0 is None
RECURSIVE FindOwned(_, _)
FindOwned(owned_list, prop_name) ==
    IF owned_list = <<>> THEN 0
    ELSE IF IsIn(upper(prop_name), upper(NameOf[Head(owned_list)])) THEN Head(owned_list)
    ELSE FindOwned(Tail(owned_list), prop_name)

\* the two lookup loops of execute_llm_trade: the properties found, in order, and
\* whether every name resolved (the loop returns at the first name that does not)
RECURSIVE ResolveAll(_, _)
ResolveAll(owned_list, names) ==
    IF names = <<>> THEN [ok |-> TRUE, props |-> <<>>]
    ELSE LET p == FindOwned(owned_list, Head(names)) IN
         IF p = 0 THEN [ok |-> FALSE, props |-> <<>>]
         ELSE LET rest == ResolveAll(owned_list, Tail(names)) IN
              [ok |-> rest.ok, props |-> <<p>> \o rest.props]

(***************************************************************************)
(* ActionParser.parse_negotiation_response.  A text is a sequence of       *)
(* tokens: words, "," and ":".                                             *)
(***************************************************************************)
\* "WORD" in text
Contains(text, word) == \E i \in 1..Len(text) : text[i] = word

\* text.startswith("WORD")
StartsWith(text, word) == Len(text) > 0 /\ text[1] = word

\* "WORD:" in text
ContainsMarker(text, word) ==
    \E i \in 1..(Len(text) - 1) : text[i] = word /\ text[i + 1] = ":"

\* the tokens \d+ and -\d+ of the model, and int() of them
IntTokens == {"0", "100", "-100", "99999"}

\* int(cash_str) raises ValueError: "99999" stands for a run of more digits than
\* int() converts (over 4300 by default since CPython 3.11)
IntRaises(tok) == tok = "99999"
int(tok) == CASE tok = "100" -> 100 [] tok = "-100" -> 0 - 100 [] OTHER -> 0

\* position of the first ":" at or after `from`, 0 when there is none
FirstColon(text, from) ==
    LET cs == {j \in from..Len(text) : text[j] = ":"} IN
    IF cs = {} THEN 0 ELSE CHOOSE j \in cs : \A k \in cs : j <= k

\* re.search(r"TRADE_COUNTER:\s*([^:]*):\s*([^:]*):\s*(-?\d+)", text): the set is
\* empty when nothing matches, else it holds the groups of the leftmost match
SearchCounter(text) ==
    LET at(i) ==
            LET j == FirstColon(text, i + 2)
                k == IF j = 0 THEN 0 ELSE FirstColon(text, j + 1)
            IN IF /\ i + 1 <= Len(text)
                  /\ text[i] = "TRADE_COUNTER"
                  /\ text[i + 1] = ":"
                  /\ j # 0
                  /\ k # 0
                  /\ k + 1 <= Len(text)
                  /\ text[k + 1] \in IntTokens
               THEN {[g1 |-> SubSeq(text, i + 2, j - 1),
                      g2 |-> SubSeq(text, j + 1, k - 1),
                      g3 |-> text[k + 1]]}
               ELSE {}
        hits == {i \in 1..Len(text) : at(i) # {}}
    IN IF hits = {} THEN {}
       ELSE at(CHOOSE i \in hits : \A h \in hits : i <= h)

\* [p.strip() for p in s.split(',') if p.strip()] if s else []
RECURSIVE SplitNames(_, _)
SplitNames(toks, cur) ==
    IF toks = <<>> THEN (IF cur = <<>> THEN <<>> ELSE <<cur>>)
    ELSE IF Head(toks) = ","
         THEN (IF cur = <<>> THEN <<>> ELSE <<cur>>) \o SplitNames(Tail(toks), <<>>)
         ELSE SplitNames(Tail(toks), Append(cur, Head(toks)))

\* the exception let out of the function
ExceptNot(raised, returned) ==
    IF raised THEN [action |-> "raised", counter_offer |-> {}] ELSE returned

\* try: ... except Exception: return ('unclear', None)
Except(raised, returned) ==
    IF raised THEN [action |-> "unclear", counter_offer |-> {}] ELSE returned

\* parse_negotiation_response(llm_response) -> (action, counter_offer); the
\* counter_offer is {} for None and {dict} otherwise
parse_negotiation_response(llm_response) ==
    LET response_upper == upper(llm_response)
        match == IF ContainsMarker(response_upper, "TRADE_COUNTER")
                 THEN SearchCounter(response_upper) ELSE {}
        raised ==
            /\ ~(Contains(response_upper, "TRADE_ACCEPT") \/ StartsWith(response_upper, "ACCEPT"))
            /\ ~(Contains(response_upper, "TRADE_REJECT") \/ StartsWith(response_upper, "REJECT"))
            /\ \E m \in match : IntRaises(m.g3)
    IN Except(raised,
       IF Contains(response_upper, "TRADE_ACCEPT") \/ StartsWith(response_upper, "ACCEPT")
       THEN [action |-> "accept", counter_offer |-> {}]
       ELSE IF Contains(response_upper, "TRADE_REJECT") \/ StartsWith(response_upper, "REJECT")
       THEN [action |-> "reject", counter_offer |-> {}]
       ELSE IF match # {}
       THEN [action |-> "counter",
             counter_offer |-> {[give |-> SplitNames(m.g1, <<>>),
                                 receive |-> SplitNames(m.g2, <<>>),
                                 cash |-> int(m.g3)] : m \in match}]
       ELSE [action |-> "unclear", counter_offer |-> {}])

MaxTokens == 5

\* the texts given to parse_negotiation_response: up to MaxTokens tokens
NegotiationTexts ==
    UNION {[1..k -> {"ACCEPT", "TRADE_COUNTER", ":", "PARK", "100", "99999"}] :
             k \in 0..MaxTokens}

(***************************************************************************)
(* Buy parser: ActionParser.parse_buy_decision.  Its texts are sequences   *)
(* of characters.                                                          *)
(***************************************************************************)
MaxFragments == 3

\* the text left as it is written
UpperCharNot(c) == c

\* str.upper() on one character
UpperChar(c) ==
    CASE c = "b" -> "B"
      [] c = "u" -> "U"
      [] c = "y" -> "Y"
      [] c = "n" -> "N"
      [] c = "o" -> "O"
      [] c = "t" -> "T"
      [] c = "d" -> "D"
      [] c = "p" -> "P"
      [] c = "a" -> "A"
      [] c = "s" -> "S"
      [] OTHER -> c

upper_chars(s) == [i \in 1..Len(s) |-> UpperChar(s[i])]

\* str.strip(): the blanks at both ends removed
RECURSIVE strip(_)
strip(s) ==
    IF s = <<>> THEN s
    ELSE IF Head(s) = " " THEN strip(Tail(s))
    ELSE IF s[Len(s)] = " " THEN strip(SubSeq(s, 1, Len(s) - 1))
    ELSE s

\* response_upper[:n]
Prefix(s, n) == SubSeq(s, 1, IF Len(s) < n THEN Len(s) ELSE n)

\* the negation test dropped
NegatedNever(response_upper) == FALSE

\* "DON'T BUY" in response_upper or "NOT BUY" in response_upper
Negated(response_upper) ==
    \/ IsIn(<<"D", "O", "N", "'", "T", " ", "B", "U", "Y">>, response_upper)
    \/ IsIn(<<"N", "O", "T", " ", "B", "U", "Y">>, response_upper)

\* parse_buy_decision(llm_response) -> bool
parse_buy_decision(llm_response) ==
    LET response_upper == upper_chars(strip(llm_response)) IN
    IF IsIn(<<"B", "U", "Y">>, response_upper) /\ ~Negated(response_upper)
    THEN TRUE
    ELSE IF \/ IsIn(<<"P", "A", "S", "S">>, response_upper)
            \/ IsIn(<<"D", "E", "C", "L", "I", "N", "E">>, response_upper)
            \/ IsIn(<<"N", "O">>, Prefix(response_upper, 10))
    THEN FALSE
    ELSE FALSE

\* the pieces the texts given to the parser are made of
Fragments ==
    { <<"B", "U", "Y">>, <<"b", "u", "y">>, <<"D", "O", "N", "'", "T", " ">>,
      <<"n", "o", "t", " ">>, <<"P", "A", "S", "S">>, <<"D", "E", "C", "L", "I", "N", "E">>,
      <<"N", "O">>, <<" ">>, <<"X">>, <<"X", "X", "X", "X", "X", "X", "X", "X">> }

\* the texts: up to MaxFragments pieces put together
RECURSIVE Concat(_)
Concat(parts) == IF parts = <<>> THEN <<>> ELSE Head(parts) \o Concat(Tail(parts))

BuyTexts == {Concat(parts) : parts \in UNION {[1..k -> Fragments] : k \in 0..MaxFragments}}

VARIABLES
    money,        \* player.money
    owned,        \* player.owned (a list)
    owner,        \* property.owner
    is_bankrupt,  \* player.is_bankrupt
    has_houses,   \* property.has_houses
    trade,        \* the last call of execute_llm_trade: arguments, state before, result
    pc,           \* where negotiate_trade is: "idle", "negotiating", "returned"
    neg,          \* the arguments of negotiate_trade: proposer, target, proposal
    current_proposal,
    current_proposer,
    current_responder,
    counter_count,
    calls,        \* prompts sent so far in this negotiation (Transport calls)
    prompt,       \* the last prompt sent
    response,     \* the last reply received
    result,       \* the tuple negotiate_trade returned
    neg_log,      \* the log lines of this negotiation
    history,      \* LlamaChat.history
    send,         \* the running send_message call: position, attempt, waits, result
    sends,        \* send_message calls made on this chat
    exchanges,    \* the sends that obtained a provider reply: (message, reply), in order
    loop,         \* the game loop: turn_n, the index of the player, the last move_result
                  \* with the player who returned it and the base moves that call made
    current_turn, \* player._current_turn
    move,         \* the running make_a_move call: position, self, strategy, result
    sink,         \* the events log: the file, the lock and each game worker's Log object
    player_chats, \* the chat session of each LLM player: the exchanges it holds
    parse         \* a call of one ActionParser function: the text given, the value returned

gameVars == <<money, owned, owner, is_bankrupt, has_houses>>
negVars == <<pc, neg, current_proposal, current_proposer, current_responder,
             counter_count, calls, prompt, response, result, neg_log>>
sendVars == <<history, send, sends, exchanges>>
moveVars == <<loop, current_turn, move>>
restVars == <<sink, player_chats, parse>>
vars == <<money, owned, owner, is_bankrupt, has_houses, trade, pc, neg, current_proposal,
          current_proposer, current_responder, counter_count, calls, prompt,
          response, result, neg_log, history, send, sends, exchanges,
          loop, current_turn, move, sink, player_chats, parse>>

(***************************************************************************)
(* Trade executor: LLMPlayer.execute_llm_trade.                            *)
(***************************************************************************)
\* the players list, in the order the game loop takes
PlayerOrder == <<"LLM1", "LLM2", "BOB">>
Game == [money |-> money, owned |-> owned, owner |-> owner]

\* what the executor does to its collaborators, in order: an ownership change, a
\* board.recalculate_monopoly_multipliers(prop), the cash movement, a
\* player.update_lists_of_properties_to_trade(board)
Effect(op, prop, player) == [op |-> op, prop |-> prop, player |-> player]

\* the transfer loop without `prop.owner = to`
RECURSIVE TransferAllKeepsOwner(_, _, _, _)
TransferAllKeepsOwner(st, props, from, to) ==
    IF props = <<>> \/ st.raised THEN st
    ELSE LET prop == Head(props) IN
         IF prop \notin Range(st.owned[from])
         THEN [st EXCEPT !.raised = TRUE]
         ELSE LET o1 == [st.owned EXCEPT ![from] = Remove(@, prop)]
                  o2 == [o1 EXCEPT ![to] = Append(@, prop)]
                  e == <<Effect("transfer", prop, to), Effect("recalculate", prop, NoPlayer)>>
              IN TransferAllKeepsOwner([st EXCEPT !.owned = o2, !.effects = @ \o e],
                                       Tail(props), from, to)

\* one transfer loop: for prop in props: prop.owner = to; from.owned.remove(prop);
\* to.owned.append(prop); board.recalculate_monopoly_multipliers(prop).
\* list.remove raises ValueError when prop is no longer in
\* the list; the loop then stops with what it has done so far.
RECURSIVE TransferAll(_, _, _, _)
TransferAll(st, props, from, to) ==
    IF props = <<>> \/ st.raised THEN st
    ELSE LET prop == Head(props)
             st1 == [st EXCEPT !.owner[prop] = to]
         IN IF prop \notin Range(st1.owned[from])
            THEN [st1 EXCEPT !.raised = TRUE]
            ELSE LET o1 == [st1.owned EXCEPT ![from] = Remove(@, prop)]
                     o2 == [o1 EXCEPT ![to] = Append(@, prop)]
                     e == <<Effect("transfer", prop, to), Effect("recalculate", prop, NoPlayer)>>
                 IN TransferAll([st1 EXCEPT !.owned = o2, !.effects = @ \o e],
                                Tail(props), from, to)

\* the cash transfer with the sign of cash ignored: the proposer always pays
CashTransferProposerPays(m, proposer, target, cash) ==
    LET a == IF cash < 0 THEN 0 - cash ELSE cash
        m1 == [m EXCEPT ![proposer] = @ - a]
    IN [m1 EXCEPT ![target] = @ + a]

\* the cash transfer: proposer.money -= cash; target.money += cash (or the reverse)
CashTransfer(m, proposer, target, cash) ==
    IF cash > 0
    THEN LET m1 == [m EXCEPT ![proposer] = @ - cash] IN [m1 EXCEPT ![target] = @ + cash]
    ELSE IF cash < 0
    THEN LET m1 == [m EXCEPT ![proposer] = @ + (0 - cash)] IN [m1 EXCEPT ![target] = @ - (0 - cash)]
    ELSE m

\* the cash branch as an effect: nothing moves when cash is 0
CashEffect(cash) == IF cash = 0 THEN <<>> ELSE <<Effect("cash", 0, NoPlayer)>>

\* the refresh loop over two players only: the trading parties
UpdateListsOfParties(proposer, target) ==
    <<Effect("update_lists", 0, proposer), Effect("update_lists", 0, target)>>

\* for player in players: player.update_lists_of_properties_to_trade(board)
UpdateLists(proposer, target) ==
    [i \in 1..Len(PlayerOrder) |-> Effect("update_lists", 0, PlayerOrder[i])]

Failed(g, line) ==
    [ret |-> FALSE, money |-> g.money, owned |-> g.owned, owner |-> g.owner, log |-> line,
     effects |-> <<>>]

\* execute_llm_trade(proposer, target, proposal, ...) on game state g with the
\* bankruptcy flags b: the returned bool, the state it leaves and its log lines
execute_llm_trade(proposer, target, proposal, g, b) ==
    IF b[proposer] \/ b[target] THEN Failed(g, <<>>)
    ELSE LET gv == ResolveAll(g.owned[proposer], proposal.give) IN
    IF ~gv.ok THEN Failed(g, <<"Trade failed: proposer doesn't own">>)
    ELSE LET rc == ResolveAll(g.owned[target], proposal.receive) IN
    IF ~rc.ok THEN Failed(g, <<"Trade failed: target doesn't own">>)
    ELSE LET cash == proposal.cash IN
    IF cash > 0 /\ g.money[proposer] < cash
    THEN Failed(g, <<"Trade failed: proposer doesn't have cash">>)
    ELSE IF cash < 0 /\ g.money[target] < 0 - cash
    THEN Failed(g, <<"Trade failed: target doesn't have cash">>)
    ELSE LET s0 == [owned |-> g.owned, owner |-> g.owner, raised |-> FALSE, effects |-> <<>>]
             s1 == TransferAll(s0, gv.props, proposer, target)
             s2 == TransferAll(s1, rc.props, target, proposer)
         IN IF s2.raised
            THEN [ret |-> FALSE, money |-> g.money, owned |-> s2.owned,
                  owner |-> s2.owner, log |-> <<"Trade execution error">>,
                  effects |-> s2.effects]
            ELSE [ret |-> TRUE, money |-> CashTransfer(g.money, proposer, target, cash),
                  owned |-> s2.owned, owner |-> s2.owner, log |-> <<"LLM Trade executed">>,
                  effects |-> s2.effects \o CashEffect(cash) \o UpdateLists(proposer, target)]

(***************************************************************************)
(* Inputs of the executor.                                                 *)
(***************************************************************************)
NameQueries == {<<"PARK">>, <<"PARK", "PLACE">>, <<"Boardwalk">>, <<"MAYFAIR">>}
NameLists == UNION {[1..k -> NameQueries] : k \in 0..MaxNames}
Cash == {0 - 100, 0, 100}
Proposals ==
    {pr \in [give : NameLists, receive : NameLists, cash : Cash] :
        Len(pr.give) + Len(pr.receive) <= MaxNames}

NoProposal == [give |-> <<>>, receive |-> <<>>, cash |-> 0]

\* A game in progress: either everybody is solvent, or LLM2 has gone bankrupt and
\* its holdings have passed to LLM1.
InitGame ==
    \/ /\ money = [p \in Players |-> IF p = "LLM1" THEN 200 ELSE 100]
       /\ owned = [p \in Players |-> IF p = "LLM1" THEN <<1>> ELSE IF p = "LLM2" THEN <<2>> ELSE <<>>]
       /\ owner = (1 :> "LLM1") @@ (2 :> "LLM2")
       /\ is_bankrupt = [p \in Players |-> FALSE]
       /\ has_houses = [q \in Props |-> 0]
    \/ /\ money = [p \in Players |-> IF p = "LLM1" THEN 300 ELSE IF p = "LLM2" THEN 0 ELSE 100]
       /\ owned = [p \in Players |-> IF p = "LLM1" THEN <<1, 2>> ELSE <<>>]
       /\ owner = (1 :> "LLM1") @@ (2 :> "LLM1")
       /\ is_bankrupt = [p \in Players |-> p = "LLM2"]
       /\ has_houses = [q \in Props |-> 0]

NoTrade ==
    [called |-> FALSE, proposer |-> NoPlayer, target |-> NoPlayer,
     proposal |-> NoProposal, pre |-> Game, ret |-> FALSE, log |-> <<>>,
     effects |-> <<>>]

(***************************************************************************)
(* Negotiation engine: LLMPlayer.negotiate_trade.                          *)
(***************************************************************************)
max_counters == 3

\* a counter that is never advanced
NextCounterCountStuck(cc) == cc

\* a counter advanced by two
NextCounterCountByTwo(cc) == cc + 2

\* the budget test dropped
OverBudgetNever(cc) == FALSE

\* the budget test off by one
OverBudgetEarly(cc) == cc >= max_counters

\* anything but a reject taken for an accept
BranchLenient(action, counter_offer) ==
    IF action = "reject" THEN "reject"
    ELSE IF action = "counter" /\ counter_offer # {} THEN "counter"
    ELSE "accept"

\* the roles left as they were
SwapRolesNot(proposer, responder) == [proposer |-> proposer, responder |-> responder]

\* while counter_count <= max_counters
WithinBudget(cc) == cc <= max_counters

\* counter_count += 1
NextCounterCount(cc) == cc + 1

\* if counter_count > max_counters
OverBudget(cc) == cc > max_counters

\* the if / elif chain on the parsed reply
Branch(action, counter_offer) ==
    IF action = "accept" THEN "accept"
    ELSE IF action = "reject" THEN "reject"
    ELSE IF action = "counter" /\ counter_offer # {} THEN "counter"
    ELSE "unclear"

\* current_proposer, current_responder = current_responder, current_proposer
SwapRoles(proposer, responder) == [proposer |-> responder, responder |-> proposer]

\* return (True, current_proposal, current_proposer, current_responder)
AcceptResult(proposal, proposer, responder) ==
    [success |-> TRUE, final_proposal |-> {proposal},
     final_proposer |-> proposer, final_target |-> responder]

\* a failure returned as a success with an empty proposal between the two agents
FailResultExecutable ==
    [success |-> TRUE, final_proposal |-> {NoProposal},
     final_proposer |-> "LLM1", final_target |-> "LLM2"]

\* return (False, None, None, None)
FailResult ==
    [success |-> FALSE, final_proposal |-> {},
     final_proposer |-> NoPlayer, final_target |-> NoPlayer]

NoPrompt == [to |-> NoPlayer, from |-> NoPlayer, number |-> 0, left |-> 0]
NoNeg == [proposer |-> NoPlayer, target |-> NoPlayer, proposal |-> NoProposal]

NegIdle ==
    /\ pc = "idle"
    /\ neg = NoNeg
    /\ current_proposal = NoProposal
    /\ current_proposer = NoPlayer
    /\ current_responder = NoPlayer
    /\ counter_count = 0
    /\ calls = 0
    /\ prompt = NoPrompt
    /\ response = <<>>
    /\ result = FailResult
    /\ neg_log = <<>>

\* the proposals a strategy reply can start a negotiation with
InitialProposals ==
    {[target |-> t, give |-> pr.give, receive |-> pr.receive, cash |-> pr.cash] :
        t \in LLMPlayers,
        pr \in {q \in Proposals : Len(q.give) + Len(q.receive) <= 1}}

\* the replies of a responder: the three answers in several spellings, counters
\* well-formed and malformed, and texts that are none of them (among them the
\* Transport's safe default)
Replies ==
    { <<"TRADE_ACCEPT">>, <<"trade_accept">>, <<"ACCEPT">>, <<"I", "ACCEPT">>,
      <<"TRADE_REJECT">>, <<"reject">>, <<"TRADE_REJECT", "TRADE_ACCEPT">>,
      <<"PASS">>, <<>>,
      <<"TRADE_COUNTER", ":", "PARK", "PLACE", ":", "BOARDWALK", ":", "100">>,
      <<"TRADE_COUNTER", ":", ":", "BOARDWALK", ":", "-100">>,
      <<"TRADE_COUNTER", ":", ":", "BOARDWALK", ":", "100">>,
      <<"trade_counter", ":", "park", ",", "PARK", "PLACE", ":", ":", "0">>,
      <<"TRADE_COUNTER", ":", "BOARDWALK", ":", "MAYFAIR", ":", "0", "OR", "TRADE_REJECT">>,
      <<"TRADE_COUNTER", ":", "BOARDWALK", ":", "BOARDWALK", ":", "0">>,
      <<"TRADE_COUNTER", ":", "PARK", ":", "BOARDWALK">>,
      <<"TRADE_COUNTER", ":", "PARK", ":", "BOARDWALK", ":", "LOTS">> }

\* the session a player sends on: self.chat, the chat made for its name
chat(player) == player

\* whether the exchange got into the session: "PASS" is also what send_message
\* returns when the provider failed, and the session then keeps nothing of the call
Delivery(llm_response) == IF llm_response = <<"PASS">> THEN BOOLEAN ELSE {TRUE}

\* self._send_message(prompt, board, players) has returned: self.chat holds one
\* more exchange if the provider answered
Sent(self, delivered) ==
    player_chats' = [player_chats EXCEPT ![chat(self)] = IF delivered THEN @ + 1 ELSE @]

ChatsIdle == player_chats = [name \in LLMPlayers |-> 0]

\* negotiate_trade(proposer, target, proposal, ...) is entered
NegotiateTrade(proposer, target, proposal) ==
    /\ pc = "idle"
    /\ \A name \in LLMPlayers : player_chats[name] < MaxSession
    /\ pc' = "negotiating"
    /\ neg' = [proposer |-> proposer, target |-> target, proposal |-> proposal]
    /\ current_proposal' = proposal
    /\ current_proposer' = proposer
    /\ current_responder' = target
    /\ counter_count' = 0
    /\ calls' = 0
    /\ UNCHANGED <<prompt, response, result, neg_log>>
    /\ UNCHANGED <<gameVars, trade, sendVars, moveVars, restVars>>

Returns(res, line) ==
    /\ pc' = "returned"
    /\ result' = res
    /\ neg_log' = Append(neg_log, line)

\* one pass of the while loop: the prompt goes to the responder, the reply is
\* parsed and handled; or the loop condition fails and the function returns
NegotiationRound(llm_response) ==
    /\ pc = "negotiating"
    /\ calls < MaxCalls
    /\ IF WithinBudget(counter_count)
       THEN \E delivered \in Delivery(llm_response) : Sent(current_responder, delivered)
       ELSE UNCHANGED player_chats
    /\ IF WithinBudget(counter_count)
       THEN LET parsed == parse_negotiation_response(llm_response)
                branch == Branch(parsed.action, parsed.counter_offer)
                cc == NextCounterCount(counter_count)
                roles == SwapRoles(current_proposer, current_responder)
            IN /\ prompt' = [to |-> current_responder, from |-> current_proposer,
                             number |-> counter_count,
                             left |-> max_counters - counter_count]
               /\ calls' = calls + 1
               /\ response' = llm_response
               /\ CASE branch = "accept" ->
                        /\ Returns(AcceptResult(current_proposal, current_proposer,
                                                current_responder), "accepted")
                        /\ UNCHANGED <<current_proposal, current_proposer,
                                       current_responder, counter_count>>
                    [] branch = "reject" ->
                        /\ Returns(FailResult, "rejected")
                        /\ UNCHANGED <<current_proposal, current_proposer,
                                       current_responder, counter_count>>
                    [] branch = "counter" ->
                        /\ counter_count' = cc
                        /\ IF OverBudget(cc)
                           THEN /\ Returns(FailResult, "max counter-offers reached")
                                /\ UNCHANGED <<current_proposal, current_proposer,
                                               current_responder>>
                           ELSE /\ pc' = "negotiating"
                                /\ neg_log' = Append(neg_log, "counter-offer")
                                /\ current_proposal' =
                                      (CHOOSE c \in parsed.counter_offer : TRUE)
                                /\ current_proposer' = roles.proposer
                                /\ current_responder' = roles.responder
                                /\ UNCHANGED result
                    [] OTHER ->
                        /\ Returns(FailResult, "unclear response")
                        /\ UNCHANGED <<current_proposal, current_proposer,
                                       current_responder, counter_count>>
       ELSE /\ Returns(FailResult, "negotiation ended")
            /\ UNCHANGED <<current_proposal, current_proposer, current_responder,
                           counter_count, calls, prompt, response>>
    /\ UNCHANGED <<neg, gameVars, trade, sendVars, moveVars, sink, parse>>

\* the caller has taken the returned tuple; the locals of the call are gone
NegotiationReturn ==
    /\ pc = "returned"
    /\ pc' = "idle"
    /\ neg' = NoNeg
    /\ current_proposal' = NoProposal
    /\ current_proposer' = NoPlayer
    /\ current_responder' = NoPlayer
    /\ counter_count' = 0
    /\ calls' = 0
    /\ prompt' = NoPrompt
    /\ response' = <<>>
    /\ result' = FailResult
    /\ neg_log' = <<>>
    /\ UNCHANGED <<gameVars, trade, sendVars, moveVars, restVars>>

(***************************************************************************)
(* Transport: LlamaChat.send_message and GeminiChat.send_message (the same *)
(* retry loop; LlamaChat also keeps the history).                          *)
(***************************************************************************)
\* delays = [120, 240, 480, 960, 1920, 3840]: 2, 4, 8, 16, 32, 64 minutes in seconds
delays == <<120, 240, 480, 960, 1920, 3840>>

\* str.lower() on one word of an error text
LowerWord(w) ==
    CASE w = "Rate" -> "rate"
      [] w = "Limit" -> "limit"
      [] w = "Usage" -> "usage"
      [] w = "Decision" -> "decision"
      [] OTHER -> w

lower(s) == [i \in 1..Len(s) |-> LowerWord(s[i])]

\* "429" in error_str or "rate limit" in error_str.lower()
\* or "usage limit" in error_str.lower()
is_rate_limit(error_str) ==
    \/ IsIn(<<"429">>, error_str)
    \/ IsIn(<<"rate", "limit">>, lower(error_str))
    \/ IsIn(<<"usage", "limit">>, lower(error_str))

\* every failure retried, whatever its text
ShouldRetryAnyError(error_str, attempt) == attempt < Len(delays) - 1

\* the last delay of the list used as well
ShouldRetryToTheEnd(error_str, attempt) == is_rate_limit(error_str) /\ attempt < Len(delays)

\* if is_rate_limit and attempt < len(delays) - 1  (attempt counts from 0)
ShouldRetry(error_str, attempt) == is_rate_limit(error_str) /\ attempt < Len(delays) - 1

\* an empty text in place of the default
SafeDefaultEmpty == ""

\* a default that reads as an acceptance
SafeDefaultAccept == "TRADE_ACCEPT"

\* return "PASS"
SafeDefault == "PASS"

\* the user message of a failed attempt left in the history
PopFailedUserNot(h) == h

\* if self.history and self.history[-1]['role'] == 'user': self.history.pop()
PopFailedUser(h) ==
    IF h # <<>> /\ h[Len(h)].role = "user" THEN SubSeq(h, 1, Len(h) - 1) ELSE h

\* what the provider can answer, and the errors it can raise
ProviderReplies == {"BUY", "PASS"}
ProviderErrors ==
    { <<"429", "Too", "Many", "Requests">>, <<"Rate", "Limit", "exceeded">>,
      <<"weekly", "usage", "limit", "reached">>,
      <<"connection", "refused">>, <<"limit", "rate", "unknown">> }

\* the system instruction LlamaChat.__init__ puts first into the history
SystemMessage == [role |-> "system", content |-> 0]

\* get_history without the filter
get_historyUnfiltered(h) ==
    [i \in 1..Len(h) |-> [role |-> h[i].role, parts |-> <<h[i].content>>]]

\* LlamaChat.get_history: the messages that are no system messages, each as an
\* object with a role and one part holding the text
get_history(h) ==
    LET kept == SelectSeq(h, LAMBDA msg : msg.role # "system")
    IN [i \in 1..Len(kept) |-> [role |-> kept[i].role, parts |-> <<kept[i].content>>]]

\* sent: the messages argument of the last ollama.chat call
NoSend ==
    [pc |-> "idle", message |-> 0, attempt |-> 0, waits |-> <<>>, provider_calls |-> 0,
     ok |-> FALSE, ret |-> "", error |-> <<>>, sent |-> <<>>]

SendIdle ==
    /\ history = <<SystemMessage>>
    /\ send = NoSend
    /\ sends = 0
    /\ exchanges = <<>>

\* send_message(message) is called; the message is the number of the call
SendMessage ==
    /\ send.pc = "idle"
    /\ sends < MaxSends
    /\ sends' = sends + 1
    /\ send' = [NoSend EXCEPT !.pc = "calling", !.message = sends + 1]
    /\ UNCHANGED <<history, exchanges>>
    /\ UNCHANGED <<gameVars, trade, negVars, moveVars, restVars>>

\* an attempt succeeds: the user message and the reply are appended, the reply returned
ProviderAnswers(reply) ==
    /\ send.pc = "calling"
    /\ history' = Append(Append(history, [role |-> "user", content |-> send.message]),
                         [role |-> "assistant", content |-> reply])
    /\ exchanges' = Append(exchanges, [message |-> send.message, reply |-> reply])
    /\ send' = [send EXCEPT !.pc = "returned", !.ok = TRUE, !.ret = reply,
                            !.provider_calls = @ + 1,
                            !.sent = Append(history, [role |-> "user", content |-> send.message])]
    /\ UNCHANGED sends
    /\ UNCHANGED <<gameVars, trade, negVars, moveVars, restVars>>

\* an attempt raises: the user message is taken back, then the call sleeps and
\* retries, or logs the final failure and returns the default
ProviderFails(error_str) ==
    /\ send.pc = "calling"
    /\ history' = PopFailedUser(Append(history, [role |-> "user", content |-> send.message]))
    /\ IF ShouldRetry(error_str, send.attempt)
       THEN send' = [send EXCEPT !.pc = "sleeping", !.error = error_str,
                                 !.provider_calls = @ + 1,
                                 !.waits = Append(@, delays[send.attempt + 1]),
                                 !.sent = Append(history, [role |-> "user",
                                                           content |-> send.message])]
       ELSE send' = [send EXCEPT !.pc = "returned", !.error = error_str,
                                 !.provider_calls = @ + 1, !.ret = SafeDefault,
                                 !.sent = Append(history, [role |-> "user",
                                                           content |-> send.message])]
    /\ UNCHANGED <<sends, exchanges>>
    /\ UNCHANGED <<gameVars, trade, negVars, moveVars, restVars>>

\* time.sleep(delay) is over: the for loop takes the next delay, or is exhausted
\* and the function returns the default
SleepOver ==
    /\ send.pc = "sleeping"
    /\ IF send.attempt + 1 < Len(delays)
       THEN send' = [send EXCEPT !.pc = "calling", !.attempt = @ + 1]
       ELSE send' = [send EXCEPT !.pc = "returned", !.ret = SafeDefault]
    /\ UNCHANGED <<history, sends, exchanges>>
    /\ UNCHANGED <<gameVars, trade, negVars, moveVars, restVars>>

\* the caller has the text
SendReturn ==
    /\ send.pc = "returned"
    /\ send' = NoSend
    /\ UNCHANGED <<history, sends, exchanges>>
    /\ UNCHANGED <<gameVars, trade, negVars, moveVars, restVars>>

\* the process is interrupted during time.sleep: the interrupt is no Exception,
\* no handler of send_message catches it, and the call is left without a result
SleepInterrupted ==
    /\ send.pc = "sleeping"
    /\ send' = [send EXCEPT !.pc = "interrupted"]
    /\ UNCHANGED <<history, sends, exchanges>>
    /\ UNCHANGED <<gameVars, trade, negVars, moveVars, restVars>>

(***************************************************************************)
(* The turn: the game loop of monopoly_game_llm, LLMPlayer.make_a_move,    *)
(* get_turn_strategy and ActionParser.parse_batched_strategy.  The base    *)
(* Player's move (dice, movement, rent) is outside this subsystem: it is   *)
(* taken to return a MoveResult, to set the bankruptcy flag with BANKRUPT  *)
(* and to call improve_properties.                                         *)
(***************************************************************************)

MoveResults == {"CONTINUE", "BANKRUPT"}

\* position of the first `word` at or after `from`, 0 when there is none
FirstToken(text, word, from) ==
    LET cs == {j \in from..Len(text) : text[j] = word} IN
    IF cs = {} THEN 0 ELSE CHOOSE j \in cs : \A k \in cs : j <= k

\* re.search(r"TRADE_PROPOSE:\s*([^:]+):\s*([^:]*):\s*([^:]*):\s*(-?\d+)", text):
\* empty when nothing matches, else the groups of the leftmost match
SearchProposal(text) ==
    LET at(i) ==
            LET j == FirstColon(text, i + 2)
                k == IF j = 0 THEN 0 ELSE FirstColon(text, j + 1)
                l == IF k = 0 THEN 0 ELSE FirstColon(text, k + 1)
            IN IF /\ i + 1 <= Len(text)
                  /\ text[i] = "TRADE_PROPOSE"
                  /\ text[i + 1] = ":"
                  /\ j > i + 2
                  /\ k # 0
                  /\ l # 0
                  /\ l + 1 <= Len(text)
                  /\ text[l + 1] \in IntTokens
               THEN {[g1 |-> SubSeq(text, i + 2, j - 1),
                      g2 |-> SubSeq(text, j + 1, k - 1),
                      g3 |-> SubSeq(text, k + 1, l - 1),
                      g4 |-> text[l + 1]]}
               ELSE {}
        hits == {i \in 1..Len(text) : at(i) # {}}
    IN IF hits = {} THEN {}
       ELSE at(CHOOSE i \in hits : \A h \in hits : i <= h)

\* parse_trade_proposal(llm_response): {} for None, else the tuple
parse_trade_proposal(llm_response) ==
    LET response_upper == upper(llm_response) IN
    IF ~ContainsMarker(response_upper, "TRADE_PROPOSE") \/ Contains(response_upper, "NO_TRADE")
    THEN {}
    ELSE {[target |-> m.g1, give |-> SplitNames(m.g2, <<>>),
           receive |-> SplitNames(m.g3, <<>>), cash |-> int(m.g4)] :
             m \in {h \in SearchProposal(response_upper) : ~IntRaises(h.g4)}}

\* re.search(r'A\)\s*(.+?)(?=B\)|$)', llm_response, IGNORECASE | DOTALL): group 1,
\* which takes at least one token
SectionA(llm_response) ==
    LET u == upper(llm_response)
        i == FirstToken(u, "A)", 1)
        j == IF i = 0 THEN 0 ELSE FirstToken(u, "B)", i + 2)
    IN IF i = 0 \/ i = Len(u) THEN {}
       ELSE {SubSeq(llm_response, i + 1, IF j = 0 THEN Len(u) ELSE j - 1)}

\* re.search(r'B\)\s*(.+?)$', llm_response, IGNORECASE | DOTALL): group 1
SectionB(llm_response) ==
    LET u == upper(llm_response)
        hits == {i \in 1..(Len(u) - 1) : u[i] = "B)"}
    IN IF hits = {} THEN {}
       ELSE {SubSeq(llm_response, (CHOOSE i \in hits : \A h \in hits : i <= h) + 1, Len(u))}

\* re.search(r'IMPROVE:\s*(.+?)(?:\n|$)', b_text, IGNORECASE), split on ","
ImproveNames(b_text) ==
    LET u == upper(b_text)
        hits == {i \in 1..(Len(u) - 2) : u[i] = "IMPROVE" /\ u[i + 1] = ":"}
    IN IF hits = {} THEN <<>>
       ELSE SplitNames(SubSeq(b_text, (CHOOSE i \in hits : \A h \in hits : i <= h) + 2,
                              Len(u)), <<>>)

NoStrategy == [trade_proposal |-> {}, improvements |-> <<>>]

\* parse_batched_strategy(llm_response): trade_proposal is {} for None
parse_batched_strategy(llm_response) ==
    [trade_proposal |->
        UNION {IF Contains(upper(a_text), "NO_TRADE") THEN {}
               ELSE parse_trade_proposal(a_text) : a_text \in SectionA(llm_response)},
     improvements |->
        LET bs == SectionB(llm_response) IN
        IF bs = {} THEN <<>>
        ELSE LET b_text == CHOOSE b \in bs : TRUE IN
             IF ~Contains(upper(b_text), "NO_IMPROVEMENT")
                /\ ContainsMarker(upper(b_text), "IMPROVE")
             THEN ImproveNames(b_text)
             ELSE <<>>]

\* the lookup without the test of is_bankrupt
ResolveTargetAnyone(self, target_name, b) ==
    LET c == {p \in Players : <<p>> = upper(target_name)} IN
    IF c = {} THEN NoPlayer ELSE CHOOSE p \in c : TRUE

\* next((p for p in players if p.name.upper() == target_name.upper()
\*       and not p.is_bankrupt), None)
ResolveTarget(self, target_name, b) ==
    LET c == {p \in Players : <<p>> = upper(target_name) /\ ~b[p]} IN
    IF c = {} THEN NoPlayer ELSE CHOOSE p \in c : TRUE

\* if success and final_proposal and final_proposer and final_target
ShouldExecute(res) ==
    /\ res.success
    /\ res.final_proposal # {}
    /\ res.final_proposer # NoPlayer
    /\ res.final_target # NoPlayer

\* the turn given up when the trade did not come about
AfterTradeOnlyOnSuccess(success) == IF success THEN "base" ELSE "moved"

\* whatever the trade block did, caught exception included, line 146 comes next
AfterTrade(success) == "base"

\* _get_improvable_properties(board), as a list in the order of self.owned: Park
\* Place and Boardwalk are one colour group, which has monopoly_multiplier 2 for
\* the player who owns both; a cell is left out while another cell of the group
\* has fewer houses. Nothing is mortgaged, and the money of the players never
\* pays for a fifth building, so that has_hotel stays 0 and the board's stock of
\* houses is not used up.
get_improvable_properties(self, houses) ==
    LET can_improve(cell) ==
            /\ \A q \in Props : owner[q] = self
            /\ \A other_cell \in Props : ~(houses[other_cell] < houses[cell])
    IN SelectSeq(owned[self], can_improve)

Improvable(self) == Range(get_improvable_properties(self, has_houses))

\* prop.cost_house: the two properties of the group cost the same to build on
cost_house(prop) == 100

\* self.settings.unspendable_cash
unspendable_cash == 0

\* _execute_improvement_strategy(property_names, board, log): for each name, the
\* first improvable property whose name contains it gets one more house
\* (_perform_improvement) if the cash allows; st is the player's money, the
\* houses and the number of buildings made so far
RECURSIVE execute_improvement_strategy(_, _, _, _)
execute_improvement_strategy(self, property_names, built_count, st) ==
    IF property_names = <<>> \/ built_count >= 5 THEN st
    ELSE LET improvable == get_improvable_properties(self, st.has_houses)
             prop == FindOwned(improvable, Head(property_names))
         IN IF prop # 0 /\ st.money >= cost_house(prop) + unspendable_cash
            THEN execute_improvement_strategy(
                     self, Tail(property_names), built_count + 1,
                     [money |-> st.money - cost_house(prop),
                      has_houses |-> [st.has_houses EXCEPT ![prop] = @ + 1],
                      built |-> st.built + 1])
            ELSE execute_improvement_strategy(self, Tail(property_names), built_count, st)

\* ActionParser.clean_response(llm_response): the first of the prefixes the text
\* starts with, compared in lower case, is removed (the texts are one line)
clean_response(llm_response) ==
    LET prefixes_to_remove == << <<"my", "decision", "is", ":">>, <<"i", "choose", ":">>,
                                <<"i", "will", ":">>, <<"decision", ":">>,
                                <<"action", ":">>, <<"response", ":">> >>
        response_lower == lower(llm_response)
        startswith(prefix) == /\ Len(prefix) <= Len(response_lower)
                              /\ SubSeq(response_lower, 1, Len(prefix)) = prefix
        found == {k \in 1..Len(prefixes_to_remove) : startswith(prefixes_to_remove[k])}
    IN IF found = {} THEN llm_response
       ELSE LET prefix == prefixes_to_remove[CHOOSE k \in found : \A h \in found : k <= h]
            IN SubSeq(llm_response, Len(prefix) + 1, Len(llm_response))

\* hasattr(self, '_improvements_handled_this_turn') and
\* self._improvements_handled_this_turn: no statement of LLMPlayer assigns that
\* attribute, in __init__, in make_a_move or anywhere else
improvements_handled_this_turn(self) == FALSE

\* improve_properties(board, log), with the reply the agent gives if it is asked:
\* whether the prompt was sent, and the money and the houses afterwards
improve_properties(self, llm_response) ==
    LET before == [money |-> money[self], has_houses |-> has_houses, built |-> 0]
        improvable == get_improvable_properties(self, has_houses)
        cleaned == clean_response(llm_response)
    IN IF improvements_handled_this_turn(self) \/ improvable = <<>>
       THEN [prompted |-> FALSE, st |-> before]
       ELSE IF Contains(upper(cleaned), "NO_IMPROVEMENT")
       THEN [prompted |-> TRUE, st |-> before]
       ELSE IF ContainsMarker(upper(cleaned), "IMPROVE") /\ ImproveNames(cleaned) # <<>>
       THEN [prompted |-> TRUE,
             st |-> execute_improvement_strategy(self, ImproveNames(cleaned), 0, before)]
       ELSE [prompted |-> TRUE, st |-> before]

\* what the agent can answer to the improvement prompt
ImproveReplies ==
    { <<"NO_IMPROVEMENT">>,
      <<"Decision", ":", "improve", ":", "Park", ",", "Boardwalk">> }

\* the strategy asked for on every turn
WantsStrategyEveryTurn(self, turn) ==
    /\ Len(owned[self]) >= 2
    /\ ~(  {p \in LLMPlayers : p # self /\ ~is_bankrupt[p]} = {}
        /\ Improvable(self) = {})

\* the strategy prompt is sent: it is turn 1, 4, 7, ... of a player with two
\* properties, and there is another solvent LLM player or something to improve
WantsStrategy(self, turn) ==
    /\ turn % 3 = 1
    /\ Len(owned[self]) >= 2
    /\ ~(  {p \in LLMPlayers : p # self /\ ~is_bankrupt[p]} = {}
        /\ Improvable(self) = {})

\* what the agent can answer to the strategy prompt
StrategyReplies ==
    { <<"A)", "NO_TRADE", "B)", "NO_IMPROVEMENT">>,
      <<"PASS">>,
      <<"A)", "TRADE_PROPOSE", ":", "LLM2", ":", "Park", "Place", ":", ":", "-100",
        "B)", "NO_IMPROVEMENT">>,
      <<"a)", "TRADE_PROPOSE", ":", "llm2", ":", "Boardwalk", ",", "Park", ":", ":", "0",
        "b)", "improve", ":", "Park", "Place", ",", "Boardwalk">>,
      <<"A)", "TRADE_PROPOSE", ":", "LLM1", ":", "Park", "Place", ":", "Park", "Place", ":", "0",
        "B)", "NO_IMPROVEMENT">>,
      <<"A)", "TRADE_PROPOSE", ":", "BOB", ":", "Boardwalk", ":", ":", "100",
        "B)", "NO_IMPROVEMENT">>,
      <<"A)", "TRADE_PROPOSE", ":", "NOBODY", ":", ":", ":", "0">>,
      <<"A)", "TRADE_PROPOSE", ":", "LLM2", ":", "Boardwalk", "B)", "IMPROVE", ":", "Boardwalk">> }

NoMove ==
    [pc |-> "none", self |-> NoPlayer, strategy |-> NoStrategy, wanted |-> FALSE,
     base_moves |-> 0, result |-> "", outcome |-> "", executed |-> 0, log |-> <<>>,
     prompted |-> FALSE, built |-> 0]

MoveIdle ==
    /\ loop = [turn_n |-> 1, i |-> 1, move_result |-> "", last |-> NoPlayer, base_moves |-> 0]
    /\ current_turn = [p \in LLMPlayers |-> 0]
    /\ move = NoMove

\* for player in players: the next index, the next turn after the last player
Advance(l) ==
    IF l.i < Len(PlayerOrder)
    THEN [l EXCEPT !.i = @ + 1]
    ELSE [l EXCEPT !.turn_n = @ + 1, !.i = 1]

\* if player.is_bankrupt: continue
SkipBankrupt ==
    /\ move.pc = "none"
    /\ loop.turn_n <= MaxTurns
    /\ is_bankrupt[PlayerOrder[loop.i]]
    /\ loop' = Advance(loop)
    /\ UNCHANGED <<current_turn, move>>
    /\ UNCHANGED <<gameVars, trade, negVars, sendVars, restVars>>

\* player.make_a_move(...) is called: the turn counter goes up, and on a strategy
\* turn get_turn_strategy sends its prompt
MakeAMove ==
    LET self == PlayerOrder[loop.i] IN
    /\ move.pc = "none"
    /\ loop.turn_n <= MaxTurns
    /\ ~is_bankrupt[self]
    /\ IF self \in LLMPlayers
       THEN /\ current_turn' = [current_turn EXCEPT ![self] = @ + 1]
            /\ IF WantsStrategy(self, current_turn[self] + 1)
               THEN move' = [NoMove EXCEPT !.pc = "strategy", !.self = self, !.wanted = TRUE]
               ELSE move' = [NoMove EXCEPT !.pc = "base", !.self = self]
       ELSE /\ move' = [NoMove EXCEPT !.pc = "base", !.self = self]
            /\ UNCHANGED current_turn
    /\ UNCHANGED loop
    /\ UNCHANGED <<gameVars, trade, negVars, sendVars, restVars>>

\* the reply to the strategy prompt is parsed; a trade proposal whose target
\* resolves to an LLM player enters negotiate_trade
StrategyReply(llm_response) ==
    LET parsed == parse_batched_strategy(llm_response)
        self == move.self
    IN
    /\ move.pc = "strategy"
    /\ \E delivered \in Delivery(llm_response) : Sent(self, delivered)
    /\ IF parsed.trade_proposal = {}
       THEN /\ move' = [move EXCEPT !.pc = "base", !.strategy = parsed]
            /\ UNCHANGED negVars
       ELSE LET proposal == CHOOSE pr \in parsed.trade_proposal : TRUE
                target_player == ResolveTarget(self, proposal.target, is_bankrupt)
            IN IF target_player \in LLMPlayers
               THEN /\ move' = [move EXCEPT !.pc = "negotiating", !.strategy = parsed]
                    /\ pc' = "negotiating"
                    /\ neg' = [proposer |-> self, target |-> target_player,
                               proposal |-> proposal]
                    /\ current_proposal' = proposal
                    /\ current_proposer' = self
                    /\ current_responder' = target_player
                    /\ counter_count' = 0
                    /\ calls' = 0
                    /\ UNCHANGED <<prompt, response, result, neg_log>>
               ELSE /\ move' = [move EXCEPT
                                  !.pc = "base", !.strategy = parsed,
                                  !.log = IF target_player # NoPlayer
                                          THEN Append(@, "tried to trade with non-LLM player")
                                          ELSE @]
                    /\ UNCHANGED negVars
    /\ UNCHANGED <<loop, current_turn>>
    /\ UNCHANGED <<gameVars, trade, sendVars, sink, parse>>

\* negotiate_trade has returned: on success the final proposal is executed
AfterNegotiation ==
    /\ move.pc = "negotiating"
    /\ pc = "returned"
    /\ IF ShouldExecute(result)
       THEN LET proposal == CHOOSE pr \in result.final_proposal : TRUE
                r == execute_llm_trade(result.final_proposer, result.final_target,
                                       proposal, Game, is_bankrupt)
            IN /\ money' = r.money
               /\ owned' = r.owned
               /\ owner' = r.owner
               /\ trade' = [called |-> TRUE, proposer |-> result.final_proposer,
                            target |-> result.final_target, proposal |-> proposal,
                            pre |-> Game, ret |-> r.ret, log |-> r.log,
                            effects |-> r.effects]
               /\ move' = [move EXCEPT
                             !.pc = AfterTrade(r.ret), !.executed = @ + 1,
                             !.outcome = neg_log[Len(neg_log)],
                             !.log = IF r.ret THEN Append(@, "Trade completed") ELSE @]
       ELSE /\ move' = [move EXCEPT !.pc = AfterTrade(FALSE),
                                    !.outcome = neg_log[Len(neg_log)]]
            /\ UNCHANGED <<money, owned, owner, trade>>
    /\ pc' = "idle"
    /\ neg' = NoNeg
    /\ current_proposal' = NoProposal
    /\ current_proposer' = NoPlayer
    /\ current_responder' = NoPlayer
    /\ counter_count' = 0
    /\ calls' = 0
    /\ prompt' = NoPrompt
    /\ response' = <<>>
    /\ result' = FailResult
    /\ neg_log' = <<>>
    /\ UNCHANGED <<is_bankrupt, has_houses, loop, current_turn>>
    /\ UNCHANGED <<sendVars, restVars>>

\* result = super().make_a_move(board, players, dice, log): the base move calls
\* self.improve_properties(board, log), which for an LLM player is the override
\* of LLMPlayer, and returns how the move ended
BaseMove(res, llm_response) ==
    LET self == move.self
        r == IF self \in LLMPlayers
             THEN improve_properties(self, llm_response)
             ELSE [prompted |-> FALSE,
                   st |-> [money |-> money[self], has_houses |-> has_houses, built |-> 0]]
    IN
    /\ move.pc = "base"
    /\ IF r.prompted
       THEN /\ llm_response \in ImproveReplies
            /\ \E delivered \in Delivery(llm_response) : Sent(self, delivered)
       ELSE /\ llm_response = <<>>
            /\ UNCHANGED player_chats
    /\ money' = [money EXCEPT ![self] = r.st.money]
    /\ has_houses' = r.st.has_houses
    /\ move' = [move EXCEPT !.pc = "moved", !.base_moves = @ + 1, !.result = res,
                            !.prompted = r.prompted, !.built = r.st.built]
    /\ is_bankrupt' = [is_bankrupt EXCEPT ![self] = (res = "BANKRUPT")]
    /\ UNCHANGED <<owned, owner, loop, current_turn>>
    /\ UNCHANGED <<trade, negVars, sendVars, sink, parse>>

\* if strategy and strategy.get('improvements'): the improvements of the batched
\* strategy are executed; then make_a_move returns the result of the base move
\* and the game loop goes on
MoveReturn ==
    LET self == move.self
        before == [money |-> money[self], has_houses |-> has_houses, built |-> 0]
        st == IF move.strategy.improvements # <<>>
              THEN execute_improvement_strategy(self, move.strategy.improvements, 0, before)
              ELSE before
    IN
    /\ move.pc = "moved"
    /\ money' = [money EXCEPT ![self] = st.money]
    /\ has_houses' = st.has_houses
    /\ move' = NoMove
    /\ loop' = [Advance(loop) EXCEPT !.move_result = move.result, !.last = move.self,
                                      !.base_moves = move.base_moves]
    /\ trade' = [NoTrade EXCEPT !.pre = [money |-> money', owned |-> owned,
                                         owner |-> owner]]
    /\ UNCHANGED <<owned, owner, is_bankrupt, current_turn>>
    /\ UNCHANGED <<negVars, sendVars, restVars>>

(***************************************************************************)
(* Events log: Log, and the use monopoly_game_llm makes of it.             *)
(***************************************************************************)
n_moves == 2

\* the games that run at once, each in its own worker process with its own Log
\* object on the one events.log file
GameWorkers == {1, 2}

\* a log line, known by the game and the turn it belongs to
Line(game, turn) == [game |-> game, turn |-> turn]

\* Log.__init__
NewLog == [content |-> <<>>, disabled |-> FALSE, flushed_count |-> 0]

\* Log.add: nothing is kept by a disabled log
add(log, data) == IF log.disabled THEN log ELSE [log EXCEPT !.content = Append(@, data)]

\* the whole content again
whole_content(log) == log.content

\* self.content[self._flushed_count:]
new_content(log) == SubSeq(log.content, log.flushed_count + 1, Len(log.content))

\* logfile.write("\n".join(new_content)); logfile.write("\n"), the file opened for
\* appending
Write(file, log) == file \o new_content(log)

NoLock == 0

\* the file after LogSettings.init_logs reset it; every game at its first turn
SinkIdle ==
    sink = [file |-> <<Line(0, 0)>>, lock |-> NoLock,
            game |-> [g \in GameWorkers |->
                        [op |-> "turn", stage |-> "call", turn_n |-> 1, log |-> NewLog]]]

\* events_log.add(f"== GAME {game_number} Turn {turn_n} ===") and the state lines;
\* events_log.flush() is called next
TurnHeader(g) ==
    /\ sink.game[g].op = "turn"
    /\ sink' = [sink EXCEPT !.game[g].log = add(@, Line(g, sink.game[g].turn_n)),
                            !.game[g].op = "flush"]
    /\ UNCHANGED <<gameVars, trade, negVars, sendVars, moveVars, player_chats, parse>>

\* `with self.lock:` of flush, and of save when something remains to be written
Acquire(g) ==
    /\ sink.game[g].op \in {"flush", "save"}
    /\ sink.game[g].stage = "call"
    /\ new_content(sink.game[g].log) # <<>>
    /\ sink.lock = NoLock
    /\ sink' = [sink EXCEPT !.lock = g, !.game[g].stage = "locked"]
    /\ UNCHANGED <<gameVars, trade, negVars, sendVars, moveVars, player_chats, parse>>

\* the write of the lines not written yet, and self._flushed_count = len(self.content)
WriteOut(g) ==
    /\ sink.game[g].stage = "locked"
    /\ sink' = [sink EXCEPT !.file = Write(@, sink.game[g].log),
                            !.game[g].log.flushed_count = Len(sink.game[g].log.content),
                            !.game[g].stage = "written"]
    /\ UNCHANGED <<gameVars, trade, negVars, sendVars, moveVars, player_chats, parse>>

\* the end of the `with` block: the lock is released; flush returns into the turn,
\* save returns at the end of the game
Release(g) ==
    /\ sink.game[g].stage = "written"
    /\ sink.lock = g
    /\ sink' = [sink EXCEPT !.lock = NoLock,
                            !.game[g].stage = "call",
                            !.game[g].op = IF @ = "flush" THEN "moves" ELSE "done"]
    /\ UNCHANGED <<gameVars, trade, negVars, sendVars, moveVars, player_chats, parse>>

\* the players' moves of one turn add their lines; after the last turn
\* board.log_current_map adds its lines and events_log.save() is called
Moves(g) ==
    /\ sink.game[g].op = "moves"
    /\ LET t == sink.game[g].turn_n IN
       sink' = [sink EXCEPT !.game[g].log = add(@, Line(g, t)),
                            !.game[g].turn_n = IF t < n_moves THEN t + 1 ELSE t,
                            !.game[g].op = IF t < n_moves THEN "turn" ELSE "save"]
    /\ UNCHANGED <<gameVars, trade, negVars, sendVars, moveVars, player_chats, parse>>

(***************************************************************************)
(* Any sequence of add, flush and save calls on the Log objects of two     *)
(* processes that share the file; a Log is enabled or disabled.            *)
(***************************************************************************)
MaxLines == 3

\* the process is not inside a call of its Log: before its first call ("turn"),
\* after an add ("added"), back from a flush ("moves") or back from a save ("done")
Between(g) ==
    /\ sink.game[g].stage = "call"
    /\ sink.game[g].op \in {"turn", "added", "moves", "done"}

\* log.add(data); the lines of a Log are numbered as they are added
CallAdd(g) ==
    LET log == sink.game[g].log IN
    /\ Between(g)
    /\ Len(log.content) < MaxLines
    /\ sink' = [sink EXCEPT !.game[g].log = add(@, Line(g, Len(log.content) + 1)),
                            !.game[g].op = "added"]
    /\ UNCHANGED <<gameVars, trade, negVars, sendVars, moveVars, player_chats, parse>>

\* log.flush(): returns at once if self.disabled or not self.content; else it
\* takes the lock, and returns if nothing was added since the last write
CallFlush(g) ==
    LET log == sink.game[g].log IN
    /\ Between(g)
    /\ IF log.disabled \/ log.content = <<>>
       THEN sink' = [sink EXCEPT !.game[g].op = "moves"]
       ELSE IF new_content(log) = <<>>
            THEN /\ sink.lock = NoLock
                 /\ sink' = [sink EXCEPT !.game[g].op = "moves"]
            ELSE sink' = [sink EXCEPT !.game[g].op = "flush"]
    /\ UNCHANGED <<gameVars, trade, negVars, sendVars, moveVars, player_chats, parse>>

\* log.save(): returns at once if self.disabled or nothing remains to be written
CallSave(g) ==
    LET log == sink.game[g].log IN
    /\ Between(g)
    /\ IF log.disabled \/ new_content(log) = <<>>
       THEN sink' = [sink EXCEPT !.game[g].op = "done"]
       ELSE sink' = [sink EXCEPT !.game[g].op = "save"]
    /\ UNCHANGED <<gameVars, trade, negVars, sendVars, moveVars, player_chats, parse>>

(***************************************************************************)
(* Calls of the ActionParser functions on given texts.                     *)
(***************************************************************************)
NoParse ==
    [fn |-> "none", llm_response |-> <<>>, returned |-> FALSE, buy |-> FALSE,
     negotiation |-> [action |-> "none", counter_offer |-> {}]]

\* a text is about to be given to one of the parsers
InitParse ==
    /\ InitGame
    /\ trade = NoTrade
    /\ NegIdle
    /\ SendIdle
    /\ MoveIdle
    /\ SinkIdle
    /\ ChatsIdle
    /\ parse \in {[NoParse EXCEPT !.fn = "parse_buy_decision", !.llm_response = text] :
                    text \in BuyTexts}
               \cup {[NoParse EXCEPT !.fn = "parse_negotiation_response",
                                     !.llm_response = text] :
                       text \in NegotiationTexts \cup Replies}

\* should_buy = self.action_parser.parse_buy_decision(llm_response)
ParseBuyDecision ==
    /\ parse.fn = "parse_buy_decision"
    /\ ~parse.returned
    /\ parse' = [parse EXCEPT !.returned = TRUE,
                              !.buy = parse_buy_decision(parse.llm_response)]
    /\ UNCHANGED <<gameVars, trade, negVars, sendVars, moveVars, sink, player_chats>>

\* action, counter_offer = self.action_parser.parse_negotiation_response(llm_response)
ParseNegotiationResponse ==
    /\ parse.fn = "parse_negotiation_response"
    /\ ~parse.returned
    /\ parse' = [parse EXCEPT !.returned = TRUE,
                              !.negotiation = parse_negotiation_response(parse.llm_response)]
    /\ UNCHANGED <<gameVars, trade, negVars, sendVars, moveVars, sink, player_chats>>

\* the start of a game in which LLM1 holds the colour group: everybody solvent,
\* or LLM2 bankrupt already
InitMove ==
    /\ \/ /\ money = [p \in Players |-> IF p = "LLM1" THEN 200 ELSE 100]
          /\ is_bankrupt = [p \in Players |-> FALSE]
       \/ /\ money = [p \in Players |-> IF p = "LLM1" THEN 300 ELSE IF p = "LLM2" THEN 0 ELSE 100]
          /\ is_bankrupt = [p \in Players |-> p = "LLM2"]
    /\ owned = [p \in Players |-> IF p = "LLM1" THEN <<1, 2>> ELSE <<>>]
    /\ owner = (1 :> "LLM1") @@ (2 :> "LLM1")
    /\ has_houses = [q \in Props |-> 0]
    /\ trade = NoTrade
    /\ NegIdle
    /\ SendIdle
    /\ MoveIdle
    /\ SinkIdle
    /\ ChatsIdle
    /\ parse = NoParse

Init ==
    /\ InitGame
    /\ trade = NoTrade
    /\ NegIdle
    /\ SendIdle
    /\ MoveIdle
    /\ SinkIdle
    /\ ChatsIdle
    /\ parse = NoParse

\* a call execute_llm_trade(proposer, target, proposal, board, players, log)
ExecuteLLMTrade(proposer, target, proposal) ==
    LET r == execute_llm_trade(proposer, target, proposal, Game, is_bankrupt) IN
    /\ ~trade.called
    /\ money' = r.money
    /\ owned' = r.owned
    /\ owner' = r.owner
    /\ trade' = [called |-> TRUE, proposer |-> proposer, target |-> target,
                 proposal |-> proposal, pre |-> Game, ret |-> r.ret, log |-> r.log,
                 effects |-> r.effects]
    /\ UNCHANGED <<is_bankrupt, has_houses, negVars, sendVars, moveVars, restVars>>

\* the caller has taken the returned bool; the call's frame is gone
TradeReturn ==
    /\ trade.called
    /\ trade' = [NoTrade EXCEPT !.pre = Game]
    /\ UNCHANGED <<gameVars, negVars, sendVars, moveVars, restVars>>

(***************************************************************************)
(* Purchases: LLMPlayer.handle_landing_on_property, together with the      *)
(* executor and the planned improvements.                                  *)
(***************************************************************************)
\* landed_property.cost_base
cost_base(landed_property) == 100

\* what the agent can answer to the purchase prompt
BuyReplies ==
    { <<"B", "U", "Y">>, <<"b", "u", "y">>, <<"P", "A", "S", "S">>,
      <<"D", "O", "N", "'", "T", " ", "B", "U", "Y">> }

\* the proposals and improvement plans of a game with purchases
BuyProposals ==
    {pr \in Proposals : Range(pr.give) \cup Range(pr.receive) \subseteq
                            {<<"PARK">>, <<"Boardwalk">>}}
ImprovementPlans == UNION {[1..k -> {<<"PARK">>, <<"Boardwalk">>}] : k \in 1..MaxNames}

\* a game in which Boardwalk is still for sale: LLM1 holds Park Place
InitBuy ==
    /\ money = [p \in Players |-> IF p = "LLM1" THEN 200 ELSE 100]
    /\ owned = [p \in Players |-> IF p = "LLM1" THEN <<1>> ELSE <<>>]
    /\ owner = (1 :> "LLM1") @@ (2 :> NoPlayer)
    /\ is_bankrupt = [p \in Players |-> FALSE]
    /\ has_houses = [q \in Props |-> 0]
    /\ trade = NoTrade
    /\ NegIdle
    /\ SendIdle
    /\ MoveIdle
    /\ SinkIdle
    /\ ChatsIdle
    /\ parse = NoParse

\* handle_landing_on_property on a property nobody owns: the prompt is sent and
\* the reply decides (93-106); raised is an exception out of the prompt
\* construction or the chat, after which the except clause buys by its own
\* test (107-112)
HandleLandingOnProperty(self, landed_property, llm_response, raised) ==
    LET should_buy == parse_buy_decision(llm_response)
        buys == IF raised
                THEN money[self] - cost_base(landed_property) >= unspendable_cash
                ELSE should_buy /\ money[self] >= cost_base(landed_property)
    IN
    /\ ~trade.called
    /\ ~is_bankrupt[self]
    /\ owner[landed_property] = NoPlayer
    /\ player_chats[self] < MaxSession
    /\ IF raised
       THEN UNCHANGED player_chats
       ELSE \E delivered \in (IF llm_response = <<"P", "A", "S", "S">>
                              THEN BOOLEAN ELSE {TRUE}) : Sent(self, delivered)
    /\ IF buys
       THEN /\ owner' = [owner EXCEPT ![landed_property] = self]
            /\ owned' = [owned EXCEPT ![self] = Append(@, landed_property)]
            /\ money' = [money EXCEPT ![self] = @ - cost_base(landed_property)]
       ELSE UNCHANGED <<money, owned, owner>>
    /\ trade' = [NoTrade EXCEPT !.pre = [money |-> money', owned |-> owned',
                                         owner |-> owner']]
    /\ UNCHANGED <<is_bankrupt, has_houses, negVars, sendVars, moveVars, sink, parse>>

\* a call self._execute_improvement_strategy(property_names, board, log)
ExecuteImprovementStrategy(self, property_names) ==
    LET st == execute_improvement_strategy(
                  self, property_names, 0,
                  [money |-> money[self], has_houses |-> has_houses, built |-> 0])
    IN
    /\ ~trade.called
    /\ ~is_bankrupt[self]
    /\ money' = [money EXCEPT ![self] = st.money]
    /\ has_houses' = st.has_houses
    /\ trade' = [NoTrade EXCEPT !.pre = [money |-> money', owned |-> owned,
                                         owner |-> owner]]
    /\ UNCHANGED <<owned, owner, is_bankrupt, negVars, sendVars, moveVars, restVars>>

NextBuy ==
    \/ \E self \in LLMPlayers, landed_property \in Props, llm_response \in BuyReplies,
          raised \in BOOLEAN :
            HandleLandingOnProperty(self, landed_property, llm_response, raised)
    \/ \E proposer \in LLMPlayers, target \in LLMPlayers, proposal \in BuyProposals :
            ExecuteLLMTrade(proposer, target, proposal)
    \/ TradeReturn
    \/ \E self \in LLMPlayers, property_names \in ImprovementPlans :
            ExecuteImprovementStrategy(self, property_names)

SpecBuy == InitBuy /\ [][NextBuy]_vars

NextExec ==
    \/ \E proposer \in LLMPlayers, target \in LLMPlayers, proposal \in Proposals :
            ExecuteLLMTrade(proposer, target, proposal)
    \/ TradeReturn

SpecExec == Init /\ [][NextExec]_vars

NextNeg ==
    \/ \E proposer \in LLMPlayers, target \in LLMPlayers :
            \E proposal \in {pr \in InitialProposals : pr.target = target} :
                NegotiateTrade(proposer, target, proposal)
    \/ \E llm_response \in Replies : NegotiationRound(llm_response)
    \/ NegotiationReturn

SpecNeg == Init /\ [][NextNeg]_vars

\* every Transport call returns, so a negotiation that can take a step takes it
SpecNegLive == SpecNeg /\ WF_vars(\E llm_response \in Replies : NegotiationRound(llm_response))

NextSend ==
    \/ SendMessage
    \/ \E reply \in ProviderReplies : ProviderAnswers(reply)
    \/ \E error_str \in ProviderErrors : ProviderFails(error_str)
    \/ SleepOver
    \/ SendReturn

SpecSend == Init /\ [][NextSend]_vars

\* every provider call returns or fails, and every time.sleep comes to its end
SpecSendLive ==
    /\ SpecSend
    /\ WF_vars(\/ \E reply \in ProviderReplies : ProviderAnswers(reply)
               \/ \E error_str \in ProviderErrors : ProviderFails(error_str))
    /\ WF_vars(SleepOver)

\* the same with the orchestration able to interrupt a sleeping call
NextSendCancel == NextSend \/ SleepInterrupted

SpecSendCancel == Init /\ [][NextSendCancel]_vars

NextMove ==
    \/ SkipBankrupt
    \/ MakeAMove
    \/ \E llm_response \in StrategyReplies : StrategyReply(llm_response)
    \/ \E llm_response \in Replies : NegotiationRound(llm_response)
    \/ AfterNegotiation
    \/ \E res \in MoveResults, llm_response \in ImproveReplies \cup {<<>>} :
            BaseMove(res, llm_response)
    \/ MoveReturn

SpecMove == InitMove /\ [][NextMove]_vars

NextParse ==
    \/ ParseBuyDecision
    \/ ParseNegotiationResponse

SpecParse == InitParse /\ [][NextParse]_vars

NextLog ==
    \E g \in GameWorkers :
        \/ TurnHeader(g)
        \/ Acquire(g)
        \/ WriteOut(g)
        \/ Release(g)
        \/ Moves(g)

SpecLog == Init /\ [][NextLog]_vars

\* the file after reset; each process has made its Log, Log(name, disabled=...)
InitCalls ==
    /\ InitGame
    /\ trade = NoTrade
    /\ NegIdle
    /\ SendIdle
    /\ MoveIdle
    /\ ChatsIdle
    /\ parse = NoParse
    /\ \E disabled \in [GameWorkers -> BOOLEAN] :
          sink = [file |-> <<Line(0, 0)>>, lock |-> NoLock,
                  game |-> [g \in GameWorkers |->
                              [op |-> "turn", stage |-> "call", turn_n |-> 1,
                               log |-> [NewLog EXCEPT !.disabled = disabled[g]]]]]

NextCalls ==
    \E g \in GameWorkers :
        \/ CallAdd(g)
        \/ CallFlush(g)
        \/ CallSave(g)
        \/ Acquire(g)
        \/ WriteOut(g)
        \/ Release(g)

SpecLogCalls == InitCalls /\ [][NextCalls]_vars

(***************************************************************************)
(* Properties of the trade executor (SpecExec).                            *)
(***************************************************************************)
Names(prop) ==
    {n \in NameQueries :
        \A q \in Props : IsIn(upper(n), upper(NameOf[q])) <=> (q = prop)}
Owns(g, player, prop) == g.owner[prop] = player /\ prop \in Range(g.owned[player])

\* C1: a call of execute_llm_trade that returns False leaves the money of the
\* players, their owned lists and the owner of every property as they were
\* before the call.
C1_FailedTradeChangesNothing ==
    (trade.called /\ ~trade.ret) =>
        /\ money = trade.pre.money
        /\ owned = trade.pre.owned
        /\ owner = trade.pre.owner

\* C2: a valid proposal {give:[P1], receive:[P2], cash:c} from A to B (both
\* solvent, A owns P1, B owns P2, A's money >= c > 0) returns True; afterwards A
\* owns P2 and not P1 and has c less, B owns P1 and not P2 and has c more, and
\* the owner fields of P1 and P2 name their new holders.
C2_ValidSwapExecutes ==
    \A P1 \in Props, P2 \in Props :
        LET A == trade.proposer
            B == trade.target
            c == trade.proposal.cash
            pre == trade.pre
        IN (/\ trade.called
            /\ A # B
            /\ ~is_bankrupt[A] /\ ~is_bankrupt[B]
            /\ Len(trade.proposal.give) = 1
            /\ trade.proposal.give[1] \in Names(P1)
            /\ Len(trade.proposal.receive) = 1
            /\ trade.proposal.receive[1] \in Names(P2)
            /\ Owns(pre, A, P1)
            /\ Owns(pre, B, P2)
            /\ c > 0
            /\ pre.money[A] >= c)
           => /\ trade.ret
              /\ P2 \in Range(owned[A]) /\ P1 \notin Range(owned[A])
              /\ P1 \in Range(owned[B]) /\ P2 \notin Range(owned[B])
              /\ owner[P1] = B /\ owner[P2] = A
              /\ money[A] = pre.money[A] - c
              /\ money[B] = pre.money[B] + c

C2_Witness ==
    /\ trade.called /\ trade.ret
    /\ trade.proposer = "LLM1" /\ trade.target = "LLM2"
    /\ trade.proposal = [give |-> << <<"PARK", "PLACE">> >>,
                         receive |-> << <<"Boardwalk">> >>, cash |-> 100]
    /\ Owns(trade.pre, "LLM1", 1) /\ Owns(trade.pre, "LLM2", 2)
    /\ Owns(Game, "LLM2", 1) /\ Owns(Game, "LLM1", 2)
    /\ money["LLM1"] = trade.pre.money["LLM1"] - 100

\* C3: in an executed trade, cash > 0 moves exactly cash from the proposer to the
\* target, cash < 0 moves exactly |cash| from the target to the proposer, cash = 0
\* moves nothing; nobody else's money changes and the sum of the two parties'
\* money is what it was.
C3_CashDirection ==
    (trade.called /\ trade.ret) =>
        LET A == trade.proposer
            B == trade.target
            c == trade.proposal.cash
            pre == trade.pre
            payer == IF c > 0 THEN A ELSE B
            payee == IF c > 0 THEN B ELSE A
            amount == IF c > 0 THEN c ELSE 0 - c
        IN /\ \A p \in Players :
                 money[p] = pre.money[p] - (IF p = payer THEN amount ELSE 0)
                                         + (IF p = payee THEN amount ELSE 0)
           /\ (c = 0 => money = pre.money)
           /\ money[A] + money[B] = pre.money[A] + pre.money[B]

C3_Witness ==
    /\ trade.called /\ trade.ret
    /\ trade.proposer # trade.target
    /\ trade.proposal.cash < 0
    /\ money[trade.proposer] = trade.pre.money[trade.proposer] + 100
    /\ money[trade.target] = trade.pre.money[trade.target] - 100

(***************************************************************************)
(* Properties of the negotiation engine (SpecNeg, SpecNegLive).            *)
(***************************************************************************)
\* a step that sends a prompt and handles its reply
PromptSent == calls' = calls + 1
\* the parse of the reply handled by that step
Reply == parse_negotiation_response(response')
LastLine == IF neg_log = <<>> THEN "" ELSE neg_log[Len(neg_log)]

Accepted == result.success /\ LastLine = "accepted"
Rejected == ~result.success /\ LastLine \in {"rejected", "unclear response"}
Exhausted ==
    ~result.success /\ LastLine \in {"max counter-offers reached", "negotiation ended"}

\* C4: in one negotiation the number of prompts sent to a responder never
\* exceeds 2*max_counters + 1.
C4_CallsBounded == calls <= 2 * max_counters + 1

C4_Witness ==
    /\ pc = "returned"
    /\ calls = max_counters + 1
    /\ Exhausted

\* C5 as stated: 0 <= counter_count <= max_counters in every reachable state,
\* the step that detects exhaustion included.
C5_CounterCountWithinMax == counter_count \in 0..max_counters

\* C5 amended: 0 <= counter_count <= max_counters + 1; it starts at 0 and grows
\* by one per counter-offer; it is at most max_counters whenever a prompt is
\* sent, and max_counters + 1 only once the negotiation has returned exhausted.
C5_CounterCountAmended ==
    /\ [](counter_count \in 0..(max_counters + 1))
    /\ [](pc = "idle" => counter_count = 0)
    /\ [](pc = "negotiating" => counter_count <= max_counters)
    /\ [](counter_count = max_counters + 1 => (pc = "returned" /\ Exhausted))
    /\ [][pc = "idle" => counter_count' = 0]_vars
    /\ [][pc = "negotiating" =>
            /\ counter_count' \in {counter_count, counter_count + 1}
            /\ (counter_count' = counter_count + 1) <=>
                   (PromptSent /\ Reply.action = "counter")]_vars

C5_Witness ==
    /\ pc = "returned"
    /\ counter_count = max_counters + 1
    /\ Exhausted

\* C6: every negotiation returns, with exactly one of the outcomes ACCEPTED,
\* REJECTED, EXHAUSTED, whatever the responders reply.
C6_NegotiationTerminates ==
    (pc = "negotiating") ~>
        (/\ pc = "returned"
         /\ \/ (Accepted /\ ~Rejected /\ ~Exhausted)
            \/ (~Accepted /\ Rejected /\ ~Exhausted)
            \/ (~Accepted /\ ~Rejected /\ Exhausted))

C6_Witness ==
    /\ pc = "returned"
    /\ Exhausted
    /\ counter_count > max_counters
    /\ calls = max_counters + 1

\* C7: a reply that parses to accept ends the negotiation at once with success,
\* the proposal on the table (the latest counter-offer, or the original proposal
\* when nobody countered), the party who made it as final_proposer and the party
\* who accepted as final_responder; after an odd number of counters these are
\* the original target and the original proposer.
C7_AcceptReturnsCurrent ==
    [][(PromptSent /\ Reply.action = "accept") =>
          /\ pc' = "returned"
          /\ result'.success
          /\ result'.final_proposal =
                IF counter_count = 0 THEN {neg.proposal}
                ELSE parse_negotiation_response(response).counter_offer
          /\ result'.final_proposer = IF counter_count = 0 THEN neg.proposer ELSE prompt.to
          /\ result'.final_target = prompt'.to
          /\ IF counter_count % 2 = 1
             THEN result'.final_proposer = neg.target /\ result'.final_target = neg.proposer
             ELSE result'.final_proposer = neg.proposer /\ result'.final_target = neg.target
      ]_vars

C7_Witness ==
    /\ pc = "returned"
    /\ result.success
    /\ counter_count = 1
    /\ neg.proposer # neg.target
    /\ result.final_proposer = neg.target
    /\ result.final_proposal = {[give |-> <<>>, receive |-> << <<"BOARDWALK">> >>,
                                 cash |-> 0 - 100]}

\* C8: a reply that parses to reject or to unclear ends the negotiation at once
\* as a failure: nothing is returned but the failure, and no prompt is sent
\* after it.
C8_RejectUnclearFails ==
    /\ [][(PromptSent /\ Reply.action \in {"reject", "unclear"}) =>
             (pc' = "returned" /\ result' = FailResult /\ Rejected')]_vars
    /\ [][pc = "returned" => ~PromptSent]_vars

C8_Witness ==
    /\ pc = "returned"
    /\ Rejected
    /\ response = <<"PASS">>
    /\ parse_negotiation_response(response).action = "unclear"
    /\ counter_count = 1

\* C9: a well-formed counter received with counter_count < max_counters keeps
\* the negotiation going: counter_count grows by one, the party that countered
\* becomes proposer and the previous proposer responder, the counter becomes the
\* current proposal, and the next prompt goes to the new responder.
C9_CounterSwapsRoles ==
    /\ [][(PromptSent /\ Reply.action = "counter" /\ counter_count < max_counters) =>
             /\ pc' = "negotiating"
             /\ counter_count' = counter_count + 1
             /\ current_proposer' = current_responder
             /\ current_responder' = current_proposer
             /\ current_proposer' = prompt'.to
             /\ {current_proposal'} = Reply.counter_offer]_vars
    /\ [][PromptSent =>
             /\ prompt'.to = current_responder
             /\ prompt'.from = current_proposer
             /\ prompt'.number = counter_count]_vars

C9_Witness ==
    /\ pc = "negotiating"
    /\ counter_count = 2
    /\ calls = 2
    /\ neg.proposer = "LLM1" /\ neg.target = "LLM2"
    /\ current_proposer = "LLM1" /\ current_responder = "LLM2"
    /\ current_proposal = [give |-> << <<"PARK", "PLACE">> >>,
                           receive |-> << <<"BOARDWALK">> >>, cash |-> 100]

\* C10: a counter received when counter_count = max_counters ends the
\* negotiation EXHAUSTED: roles and current proposal stay, failure is returned
\* and no prompt follows; a counter received earlier never ends it.
C10_CounterAtMaxExhausts ==
    /\ [][(PromptSent /\ Reply.action = "counter") =>
             IF counter_count = max_counters
             THEN /\ pc' = "returned"
                  /\ result' = FailResult
                  /\ Exhausted'
                  /\ current_proposer' = current_proposer
                  /\ current_responder' = current_responder
                  /\ current_proposal' = current_proposal
             ELSE /\ counter_count < max_counters
                  /\ pc' = "negotiating"]_vars
    /\ [][pc = "returned" => ~PromptSent]_vars
    /\ [](Exhausted => calls = max_counters + 1)

C10_Witness ==
    /\ pc = "returned"
    /\ Exhausted
    /\ calls = max_counters + 1
    /\ parse_negotiation_response(response).action = "counter"
    /\ current_proposer # current_responder


(***************************************************************************)
(* Properties of the Transport send (SpecSend, SpecSendCancel).            *)
(***************************************************************************)
\* the history a list of successful exchanges makes: one user and one
\* assistant message each, in order
ExchangeHistory(ex) ==
    [i \in 1..(2 * Len(ex)) |->
        IF i % 2 = 1
        THEN [role |-> "user", content |-> ex[(i + 1) \div 2].message]
        ELSE [role |-> "assistant", content |-> ex[i \div 2].reply]]

\* the call has ended without any attempt having succeeded
GaveUp == send.pc = "returned" /\ ~send.ok

\* this step is a failed provider call
AttemptFailed == send.pc = "calling" /\ send'.provider_calls = send.provider_calls + 1 /\ ~send'.ok

\* C14: a send never ends in an error: whatever the provider failures, the
\* call returns a text, and the text is "PASS" whenever no attempt succeeded.
C14_SendReturnsText ==
    /\ send.pc \in {"idle", "calling", "sleeping", "returned"}
    /\ send.pc = "returned" =>
          /\ send.ret \in ProviderReplies \cup {"PASS"}
          /\ ~send.ok => send.ret = "PASS"
          /\ send.ok => send.ret = exchanges[Len(exchanges)].reply

\* a call that gave up on a fatal error after having slept at least once
C14_Witness == GaveUp /\ Len(send.waits) >= 1 /\ ~is_rate_limit(send.error)

\* C15: the history holds exactly one user and assistant pair for each send
\* that obtained a reply, in call order: a failed attempt leaves no message.
C15_HistoryOnlySuccessfulExchanges ==
    /\ history = <<SystemMessage>> \o ExchangeHistory(exchanges)
    /\ \A i \in 1..Len(exchanges) : \A j \in 1..Len(exchanges) :
          i < j => exchanges[i].message < exchanges[j].message
    /\ Len(exchanges) <= sends

\* the first send gave up; the second failed three times with a rate limit
\* error and then succeeded: one pair in the history
C15_Witness ==
    /\ send.pc = "returned" /\ send.ok /\ send.message = 2
    /\ Len(send.waits) = 3
    /\ Len(exchanges) = 1
    /\ Len(history) = 3

\* C16 as stated: a send that gives up on consecutive transient failures has
\* used the six waits of 2, 4, 8, 16, 32 and 64 minutes.
C16_AllSixWaitsUsed ==
    (GaveUp /\ is_rate_limit(send.error)) =>
        send.waits = [i \in 1..6 |-> 60 * 2^i]

\* C16: the waits of one send are 2, 4, 8, 16 and 32 minutes in that order,
\* each double the one before; the 64 minute delay is never slept: the sixth
\* attempt follows the 32 minute wait, and when it fails too the call gives
\* up and returns "PASS".
C16_BackoffWaits ==
    /\ Len(send.waits) <= 5
    /\ \A i \in 1..Len(send.waits) : send.waits[i] = 60 * 2^i
    /\ \A i \in 2..Len(send.waits) : send.waits[i] = 2 * send.waits[i - 1]
    /\ send.provider_calls <= Len(send.waits) + 1
    /\ (GaveUp /\ is_rate_limit(send.error)) =>
          /\ Len(send.waits) = 5
          /\ send.provider_calls = 6
          /\ send.ret = "PASS"

\* a call that gave up on the sixth transient failure
C16_Witness == GaveUp /\ is_rate_limit(send.error) /\ Len(send.waits) = 5 /\ send.waits[5] = 1920

\* C17: a failed attempt whose error is not a rate limit ends the call at
\* once with "PASS", whichever attempt it is: no wait, no further provider
\* call; only a rate limit error is followed by a wait.
C17_FatalFailsFast ==
    [][ /\ (AttemptFailed /\ ~is_rate_limit(send'.error)) =>
              /\ send'.pc = "returned"
              /\ send'.ret = "PASS"
              /\ send'.waits = send.waits
        /\ send'.pc = "sleeping" => (AttemptFailed /\ is_rate_limit(send'.error))
        /\ send.pc = "returned" => send'.pc = "idle"
      ]_vars

\* a fatal error on a later attempt
C17_Witness == GaveUp /\ ~is_rate_limit(send.error) /\ send.attempt >= 2

\* C18 as stated: a call whose wait was cancelled ends like a fatal error,
\* returned with the safe default.
C18_CancelledWaitReturnsDefault ==
    Len(send.waits) >= 1 =>
        (send.pc \in {"calling", "sleeping"} \/ (send.pc = "returned" /\ send.ret \in ProviderReplies \cup {"PASS"}))


(***************************************************************************)
(* Properties of the turn (SpecMove, SpecMoveLive).                        *)
(***************************************************************************)
\* the property ids a list of names resolves to, whoever owns them
IdsOf(names) ==
    {q \in Props : \E i \in 1..Len(names) : IsIn(upper(names[i]), upper(NameOf[q]))}

NoOverlap(proposal) == IdsOf(proposal.give) \cap IdsOf(proposal.receive) = {}

\* this step is make_a_move taking the tuple negotiate_trade returned
TakesResult == move.pc = "negotiating" /\ pc = "returned" /\ move'.pc # "negotiating"

\* C11: an exhausted negotiation returns what a rejected one returns, failure
\* with no proposal and no parties, and in both cases the caller executes no
\* trade: money, owned lists and owners are as before.
C11_ExhaustionIsRejection ==
    [][ (TakesResult /\ LastLine \in {"rejected", "max counter-offers reached",
                                      "negotiation ended"}) =>
            /\ result = [success |-> FALSE, final_proposal |-> {},
                         final_proposer |-> "None", final_target |-> "None"]
            /\ money' = money /\ owned' = owned /\ owner' = owner
            /\ trade' = trade
            /\ move'.executed = 0
      ]_vars

\* the caller has gone on to the base move after an exhausted negotiation
C11_Witness ==
    /\ move.pc = "base"
    /\ move.outcome = "max counter-offers reached"
    /\ move.executed = 0
    /\ ~trade.called

\* C12 as stated: in a negotiation started from make_a_move the proposer and
\* the responder are two distinct solvent LLM players.
C12_DistinctSolventAgents ==
    (move.pc = "negotiating" /\ pc = "negotiating") =>
        /\ current_proposer # current_responder
        /\ current_proposer \in LLMPlayers /\ current_responder \in LLMPlayers
        /\ ~is_bankrupt[current_proposer] /\ ~is_bankrupt[current_responder]

\* C13 as stated: no proposal of a negotiation and no proposal handed to the
\* executor names one property in both its give and its receive list.
C13_GiveReceiveDisjoint ==
    /\ (move.pc = "negotiating" /\ pc = "negotiating") => NoOverlap(current_proposal)
    /\ (move.pc # "none" /\ trade.called) => NoOverlap(trade.proposal)

\* C19 as stated: each prompt of a negotiation after the first follows a parsed
\* reply and goes to the party that did not get the prompt before it.
C19_PromptsAlternate ==
    [][ (move.pc = "negotiating" /\ PromptSent /\ calls >= 1) =>
            /\ parse_negotiation_response(response).action = "counter"
            /\ prompt'.number = prompt.number + 1
            /\ prompt'.to = prompt.from
            /\ prompt'.to # prompt.to
      ]_vars

\* the turn is at a point the code leaves: the strategy reply is awaited (the
\* Transport always returns a text), negotiate_trade is in its loop or has
\* returned, the base move or the return is due
CanGoOn ==
    CASE move.pc = "negotiating" ->
             \/ pc = "negotiating" /\ calls < MaxCalls
             \/ pc = "returned"
      [] move.pc \in {"strategy", "base", "moved"} -> pc = "idle"
      [] OTHER -> TRUE

\* C20: whatever the strategy request, the negotiation and the execution of
\* the trade came to, make_a_move gets to the base move, performs it once and
\* returns its MoveResult to the game loop, which goes on to the next player.
C20_TurnAlwaysCompletes ==
    /\ move.pc \in {"strategy", "negotiating", "base"} =>
          (move.base_moves = 0 /\ CanGoOn)
    /\ move.pc = "moved" => (move.base_moves = 1 /\ move.result \in MoveResults /\ CanGoOn)
    /\ (move.pc = "none" /\ loop.last # "None") =>
          /\ loop.base_moves = 1
          /\ loop.move_result \in MoveResults
          /\ loop.last = PlayerOrder[IF loop.i = 1 THEN Len(PlayerOrder) ELSE loop.i - 1]
             \/ is_bankrupt[PlayerOrder[IF loop.i = 1 THEN Len(PlayerOrder) ELSE loop.i - 1]]

\* the base move made after a trade that raised half way
C20_Witness ==
    /\ move.pc = "moved"
    /\ move.base_moves = 1
    /\ move.outcome = "accepted"
    /\ trade.called /\ ~trade.ret /\ trade.log = <<"Trade execution error">>

(***************************************************************************)
(* Collaborator calls of an applied trade.                                 *)
(***************************************************************************)
\* the positions of the effects of one kind in the last executor call
EffectsAt(op) == {i \in 1..Len(trade.effects) : trade.effects[i].op = op}

Transferred == {trade.effects[i].prop : i \in EffectsAt("transfer")}

Recalculations(prop) == {i \in EffectsAt("recalculate") : trade.effects[i].prop = prop}

Refreshed == {trade.effects[i].player : i \in EffectsAt("update_lists")}

RefreshesComeLast ==
    \A i \in EffectsAt("update_lists") :
        \A j \in EffectsAt("transfer") \cup EffectsAt("cash") : j < i

\* C21: after every trade that execute_llm_trade applies (returns True) the
\* multiplier recomputation has been invoked once for each transferred property
\* (each transfer is followed at once by the recomputation of that property and
\* there is no other recomputation; between two distinct parties that is exactly
\* one per property), the tradeable-properties refresh has been invoked on every
\* player of the game, and every refresh comes after all ownership and cash
\* changes of that trade.
C21_RecalculateEachRefreshAll ==
    (trade.called /\ trade.ret) =>
        /\ \A i \in EffectsAt("transfer") :
              /\ i + 1 \in EffectsAt("recalculate")
              /\ trade.effects[i + 1].prop = trade.effects[i].prop
        /\ Cardinality(EffectsAt("recalculate")) = Cardinality(EffectsAt("transfer"))
        /\ trade.proposer # trade.target =>
              \A prop \in Transferred : Cardinality(Recalculations(prop)) = 1
        /\ Refreshed = Players
        /\ RefreshesComeLast

\* a swap of two properties with cash between two distinct players was applied
C21_Witness ==
    /\ trade.called /\ trade.ret
    /\ trade.proposer # trade.target
    /\ Transferred = Props
    /\ EffectsAt("cash") # {}

(***************************************************************************)
(* The events log of several games.                                        *)
(***************************************************************************)
\* C22: the lines of one game are one contiguous block of the events log file,
\* never interleaved with lines of another game.
C22_WholeGameChunks ==
    \A i, j, k \in 1..Len(sink.file) :
        (i < j /\ j < k /\ sink.file[i].game = sink.file[k].game) =>
            sink.file[j].game = sink.file[i].game

\* writes are serialized: whoever writes holds the lock, and what one flush or
\* save writes is one contiguous block of lines of that game
C22_WritesSerialized ==
    /\ \A g \in GameWorkers :
          sink.game[g].stage \in {"locked", "written"} => sink.lock = g
    /\ [][\A g \in GameWorkers :
            sink.game[g].stage = "locked" /\ sink.game'[g].stage = "written" =>
                /\ Len(sink.file') > Len(sink.file)
                /\ SubSeq(sink.file', 1, Len(sink.file)) = sink.file
                /\ \A i \in Len(sink.file) + 1 .. Len(sink.file') :
                      sink.file'[i].game = g]_vars

(***************************************************************************)
(* The message sequence of the manual-history provider (SpecSend).         *)
(***************************************************************************)
\* one system message, first, then user and assistant messages in turn
LeadingSystemThenAlternating(h) ==
    /\ h # <<>>
    /\ h[1] = SystemMessage
    /\ \A i \in 2..Len(h) : h[i].role = IF i % 2 = 0 THEN "user" ELSE "assistant"

\* C23: at every provider call of LlamaChat the messages sent are exactly one
\* system message, at position 0, followed by alternating user and assistant
\* messages ending with the new user prompt; between sends the stored history is
\* that system message followed by complete user/assistant pairs, and
\* get_history exposes those pairs in order.
C23_SystemThenPairs ==
    /\ send.provider_calls > 0 =>
          /\ LeadingSystemThenAlternating(send.sent)
          /\ Len(send.sent) % 2 = 0
          /\ send.sent[Len(send.sent)] = [role |-> "user", content |-> send.message]
    /\ send.pc # "calling" =>
          /\ LeadingSystemThenAlternating(history)
          /\ Len(history) % 2 = 1
          /\ get_history(history) =
                [i \in 1..(Len(history) - 1) |->
                    [role |-> history[i + 1].role, parts |-> <<history[i + 1].content>>]]
          /\ Len(get_history(history)) = 2 * Len(exchanges)

\* the second send reaches the provider after a failed attempt, with the first
\* exchange stored before its prompt
C23_Witness ==
    /\ send.message = 2 /\ send.provider_calls = 2
    /\ Len(send.sent) = 4
    /\ Len(get_history(history)) = 2

(***************************************************************************)
(* Chat sessions (SpecMove).                                               *)
(***************************************************************************)
\* this step is a negotiation round that sent a prompt
RoundSends == pc = "negotiating" /\ calls' = calls + 1

\* C24: each LLM player has a session of its own, and in a negotiation round
\* only the current responder's session changes: the current proposer's session
\* and every other player's session are unchanged.
C24_OnlyResponderSessionChanges ==
    /\ \A a, b \in LLMPlayers : a # b => chat(a) # chat(b)
    /\ [][RoundSends =>
            /\ player_chats'[chat(current_proposer)] = player_chats[chat(current_proposer)]
            /\ \A name \in LLMPlayers \ {current_responder} :
                  player_chats'[chat(name)] = player_chats[chat(name)]
         ]_vars

\* the same for the rounds in which proposer and responder are two players
C24_BetweenTwoPlayers ==
    [][(RoundSends /\ current_proposer # current_responder) =>
            /\ player_chats'[chat(current_proposer)] = player_chats[chat(current_proposer)]
            /\ \A name \in LLMPlayers \ {current_responder} :
                  player_chats'[chat(name)] = player_chats[chat(name)]
      ]_vars

(***************************************************************************)
(* Reported reasons of rejected trades (SpecExec).                         *)
(***************************************************************************)
\* the last executor call returned False out of its validation phase
RejectedByValidation ==
    trade.called /\ ~trade.ret /\ trade.log # <<"Trade execution error">>

BankruptParty == is_bankrupt[trade.proposer] \/ is_bankrupt[trade.target]

\* C25: whenever execute_llm_trade rejects a proposal because a party is
\* bankrupt, a give property is not owned by the proposer, a receive property is
\* not owned by the target, or either side lacks the cash, a log line stating
\* that reason has been added when False is returned.
C25_RejectionNamesReason ==
    RejectedByValidation =>
        /\ Len(trade.log) = 1
        /\ BankruptParty => trade.log[1] = "Trade failed: a party is bankrupt"
        /\ ~BankruptParty =>
              trade.log[1] \in {"Trade failed: proposer doesn't own",
                                "Trade failed: target doesn't own",
                                "Trade failed: proposer doesn't have cash",
                                "Trade failed: target doesn't have cash"}

\* the same for the rejections of proposals between two solvent players
C25_SolventRejectionNamesReason ==
    (RejectedByValidation /\ ~BankruptParty) =>
        /\ Len(trade.log) = 1
        /\ ~ResolveAll(trade.pre.owned[trade.proposer], trade.proposal.give).ok =>
              trade.log[1] = "Trade failed: proposer doesn't own"
        /\ trade.log[1] \in {"Trade failed: proposer doesn't own",
                             "Trade failed: target doesn't own",
                             "Trade failed: proposer doesn't have cash",
                             "Trade failed: target doesn't have cash"}

(***************************************************************************)
(* The buy parser (SpecParse).                                             *)
(***************************************************************************)
\* the two forms of a letter, stated apart from str.upper()
SameLetter(c, capital) ==
    \/ c = capital
    \/ <<c, capital>> \in {<<"b", "B">>, <<"u", "U">>, <<"y", "Y">>, <<"n", "N">>,
                           <<"o", "O">>, <<"t", "T">>, <<"d", "D">>, <<"p", "P">>,
                           <<"a", "A">>, <<"s", "S">>}

\* the text holds the word at position i + 1, in capitals or not
HoldsAt(text, word, i) ==
    /\ i + Len(word) <= Len(text)
    /\ \A k \in 1..Len(word) : SameLetter(text[i + k], word[k])

HoldsWord(text, word) == \E i \in 0..Len(text) : HoldsAt(text, word, i)

BuyAsked == parse.fn = "parse_buy_decision" /\ parse.returned

SaysBuy ==
    /\ HoldsWord(parse.llm_response, <<"B", "U", "Y">>)
    /\ ~HoldsWord(parse.llm_response, <<"D", "O", "N", "'", "T", " ", "B", "U", "Y">>)
    /\ ~HoldsWord(parse.llm_response, <<"N", "O", "T", " ", "B", "U", "Y">>)

SaysPass ==
    \/ HoldsWord(parse.llm_response, <<"P", "A", "S", "S">>)
    \/ HoldsWord(parse.llm_response, <<"D", "E", "C", "L", "I", "N", "E">>)
    \/ \E i \in 0..8 : HoldsAt(parse.llm_response, <<"N", "O">>, i)

\* C26: parse_buy_decision returns true for every text that contains "BUY"
\* (in capitals or not) and contains neither "DON'T BUY" nor "NOT BUY".
C26_BuyWithoutNegationIsTrue ==
    (BuyAsked /\ SaysBuy) => parse.buy

\* "I will not  buy"-like text: a negation word, two blanks, then buy in small
\* letters, answered with true
C26_Witness ==
    /\ BuyAsked /\ parse.buy
    /\ parse.llm_response = <<"n", "o", "t", " ", " ", "b", "u", "y">>

\* C27: parse_buy_decision returns false for every text that contains "PASS",
\* contains "DECLINE", or has "NO" within its first 10 characters.
C27_PassDeclineNoIsFalse ==
    (BuyAsked /\ SaysPass) => ~parse.buy

\* C27 as the code has it: false for every such text that does not also say
\* BUY without a negation marker.
C27_PassUnlessBuy ==
    (BuyAsked /\ SaysPass /\ ~SaysBuy) => ~parse.buy

\* a text that says PASS and has a negated BUY was answered with false
C27_Witness ==
    /\ BuyAsked /\ ~parse.buy
    /\ parse.llm_response = <<"D", "O", "N", "'", "T", " ", "b", "u", "y", "P", "A", "S", "S">>

(***************************************************************************)
(* The negotiation parser (SpecParse).                                     *)
(***************************************************************************)
NegotiationAsked == parse.fn = "parse_negotiation_response" /\ parse.returned

\* C28: parse_negotiation_response is total: for any input text it returns
\* exactly one action out of accept, reject, counter and unclear and never
\* raises; it returns a counter fragment (give list, receive list, integer cash)
\* exactly when the action is counter, and None otherwise.
C28_NegotiationParserTotal ==
    NegotiationAsked =>
        /\ parse.negotiation.action \in {"accept", "reject", "counter", "unclear"}
        /\ parse.negotiation.action = "counter" <=> parse.negotiation.counter_offer # {}
        /\ Cardinality(parse.negotiation.counter_offer) <= 1
        /\ \A c \in parse.negotiation.counter_offer :
              /\ DOMAIN c = {"give", "receive", "cash"}
              /\ c.cash \in Int
              /\ DOMAIN c.give = 1..Len(c.give)
              /\ DOMAIN c.receive = 1..Len(c.receive)

\* a counter-offer whose cash int() cannot convert was answered with unclear
C28_Witness ==
    /\ NegotiationAsked
    /\ parse.llm_response = <<"TRADE_COUNTER", ":", ":", ":", "99999">>
    /\ parse.negotiation.action = "unclear"
    /\ parse.negotiation.counter_offer = {}

(***************************************************************************)
(* The cash of an executed counter-offer (SpecMove).                       *)
(***************************************************************************)
\* the trade just applied in this make_a_move is a counter-offer with cash > 0
\* that was accepted: its proposer is not the player who opened the negotiation
\* but the responder who made the counter-offer
CounterWithCashApplied ==
    /\ trade.called /\ trade.ret
    /\ move.self \in LLMPlayers
    /\ trade.proposer # move.self
    /\ trade.target = move.self
    /\ trade.proposal.cash > 0

\* C29: when a responder replies TRADE_COUNTER:<give>:<receive>:<cash> with
\* cash > 0 and that counter is then accepted and executed, the party who made
\* the counter-offer ends up receiving <cash> from the other party.
C29_CounterMakerReceivesCash ==
    CounterWithCashApplied =>
        /\ money[trade.proposer] = trade.pre.money[trade.proposer] + trade.proposal.cash
        /\ money[trade.target] = trade.pre.money[trade.target] - trade.proposal.cash

\* what the executor does with it instead: the maker of the counter-offer pays
C29_CounterMakerPays ==
    CounterWithCashApplied =>
        /\ money[trade.proposer] = trade.pre.money[trade.proposer] - trade.proposal.cash
        /\ money[trade.target] = trade.pre.money[trade.target] + trade.proposal.cash


\* the base move of a turn has run, and in this turn make_a_move obtained a
\* batched strategy that names improvements, which it executes itself
BatchedImprovementsTurn ==
    /\ move.pc = "moved"
    /\ move.self \in LLMPlayers
    /\ move.wanted
    /\ move.strategy.improvements # <<>>

\* C30: in a turn in which make_a_move obtained a batched strategy and handles
\* the improvements through it, the call of improve_properties made during that
\* turn has sent no prompt to the agent and has built nothing.
C30_FallbackSilentAfterBatch ==
    BatchedImprovementsTurn => (~move.prompted /\ move.built = 0)

\* the same turn, with the call of improve_properties having asked the agent
\* and built a house before the batched improvements are executed
C30_DecidedTwice ==
    ~(BatchedImprovementsTurn /\ move.prompted /\ move.built > 0)

(***************************************************************************)
(* Strategy turns.                                                         *)
(***************************************************************************)
\* C31: a player asks for a batched strategy only on its turns 1, 4, 7, ... and
\* only while it owns at least two properties; a negotiation starts only from
\* the strategy just obtained, once in the turn; on any other turn no strategy
\* prompt and no negotiation prompt is sent.
C31_StrategyEveryThirdTurn ==
    [][ /\ (move'.wanted /\ ~move.wanted) =>
              /\ current_turn'[move'.self] % 3 = 1
              /\ Len(owned[move'.self]) >= 2
        /\ (pc' = "negotiating" /\ pc # "negotiating") =>
              /\ move.pc = "strategy" /\ move.wanted /\ move.outcome = ""
              /\ current_turn[move.self] % 3 = 1
        /\ ~move'.wanted =>
              /\ move'.pc \in {"none", "base", "moved"}
              /\ pc' = "idle" /\ calls' = calls
      ]_vars

\* a negotiation of the second strategy turn of a player, and the turns between
\* the two that went by without one
C31_Witness ==
    /\ move.wanted /\ pc = "negotiating" /\ calls > 0
    /\ current_turn[move.self] = 4

(***************************************************************************)
(* Trades only between agent-controlled players.                           *)
(***************************************************************************)
\* the strategy holds a trade proposal whose target name is not the name of a
\* solvent LLM player: a rule-based player, a bankrupt player or nobody
TargetNotAnAgent(strategy) ==
    /\ strategy.trade_proposal # {}
    /\ \A pr \in strategy.trade_proposal :
          ~\E p \in LLMPlayers : <<p>> = upper(pr.target) /\ ~is_bankrupt[p]

\* C32: when the target of a proposal resolves to a rule-based player, to a
\* bankrupt player or to no player, no negotiation prompt is sent, no trade is
\* executed and nobody's money or properties change: the step that takes the
\* strategy goes straight to the base move.
C32_NoTradeWithNonAgent ==
    [][ (move.pc = "strategy" /\ move'.pc # "strategy"
                              /\ TargetNotAnAgent(move'.strategy)) =>
            /\ move'.pc = "base" /\ move'.executed = 0 /\ move'.outcome = ""
            /\ pc' = "idle" /\ calls' = calls /\ prompt' = prompt
            /\ trade' = trade /\ ~trade.called
            /\ money' = money /\ owned' = owned /\ owner' = owner
      ]_vars

\* a proposal addressed to the rule-based player has been skipped
C32_Witness ==
    /\ move.pc = "base"
    /\ TargetNotAnAgent(move.strategy)
    /\ move.log = <<"tried to trade with non-LLM player">>
    /\ move.executed = 0 /\ ~trade.called

(***************************************************************************)
(* A property named twice in one list.                                     *)
(***************************************************************************)
\* two entries of the list resolve, in the party's owned list as it was before
\* the call, to one and the same property
ResolvesTwice(party, names) ==
    \E i \in 1..Len(names), j \in 1..Len(names) :
        /\ i < j
        /\ FindOwned(trade.pre.owned[party], names[i]) # 0
        /\ FindOwned(trade.pre.owned[party], names[i]) =
           FindOwned(trade.pre.owned[party], names[j])

NamedTwice ==
    /\ trade.called
    /\ ~is_bankrupt[trade.proposer] /\ ~is_bankrupt[trade.target]
    /\ \/ ResolvesTwice(trade.proposer, trade.proposal.give)
       \/ ResolvesTwice(trade.target, trade.proposal.receive)

\* C33: a call whose give or receive list resolves one owned property more than
\* once is either rejected with nothing changed, or applied completely (every
\* transfer, the cash and the refresh of all players); it never returns with
\* some properties moved and the rest of the trade left out.
C33_NamedTwiceAllOrNothing ==
    NamedTwice =>
        \/ ~trade.ret /\ Game = trade.pre /\ trade.effects = <<>>
        \/ trade.ret /\ Refreshed = Players

\* the call that returned False after it had moved the property
C33_MovedThenFailed ==
    ~(NamedTwice /\ ~trade.ret /\ Transferred # {} /\ owner # trade.pre.owner)

(***************************************************************************)
(* Ownership after purchases and trades.                                   *)
(***************************************************************************)
\* how many times prop stands in the list
Occurrences(owned_list, prop) ==
    Cardinality({i \in 1..Len(owned_list) : owned_list[i] = prop})

Holdings(g) == UNION {Range(g.owned[p]) : p \in Players}

C38_MoneyNeverNegative == \A p \in Players : money[p] >= 0

\* an agent that bought Boardwalk and built a house has paid its last cash in
\* the trade that was just executed
C38_Witness ==
    /\ trade.called /\ trade.ret /\ trade.proposal.cash # 0
    /\ \E p \in LLMPlayers :
          /\ money[p] = 0 /\ trade.pre.money[p] > 0
          /\ owner[2] = p
          /\ \E prop \in Props : has_houses[prop] > 0

(***************************************************************************)
(* A failed send inside a negotiation.                                     *)
(***************************************************************************)
\* the responder was prompted and the text that came back is the safe default
\* of a failed send
DefaultComesBack ==
    /\ pc = "negotiating" /\ calls' = calls + 1
    /\ response' = <<SafeDefault>>

\* C35: when the send to a responder degrades to the safe default "PASS", the
\* text parses to unclear, negotiate_trade returns failure at once, no further
\* prompt is sent, and the caller executes no trade.
C35_FailedSendEndsNegotiation ==
    [][ /\ DefaultComesBack =>
              /\ parse_negotiation_response(response').action = "unclear"
              /\ pc' = "returned" /\ result' = FailResult
              /\ neg_log' = Append(neg_log, "unclear response")
        /\ (pc = "returned" /\ response = <<SafeDefault>>) =>
              /\ calls' <= calls /\ prompt' \in {prompt, NoPrompt}
              /\ money' = money /\ owned' = owned /\ owner' = owner
              /\ trade' = trade /\ move'.executed = 0
      ]_vars

\* LLM1 was prompted with the counter-offer of LLM2 in its first turn, its send
\* failed (its session holds the strategy exchange only) and the negotiation
\* has returned failure
C35_Witness ==
    /\ pc = "returned" /\ response = <<SafeDefault>>
    /\ result = FailResult /\ calls = 2
    /\ prompt.to = "LLM1" /\ prompt.from = "LLM2"
    /\ current_turn["LLM1"] = 1 /\ player_chats["LLM1"] = 1
    /\ move.pc = "negotiating"

(***************************************************************************)
(* The executor call after a negotiation (SpecMove).                       *)
(***************************************************************************)
\* make_a_move calls execute_llm_trade in this step
ExecutorCalled == move'.executed > move.executed

\* the party who made the proposal that was accepted: the opener after an even
\* number of counter-offers, the original target after an odd number
MadeAcceptedProposal == IF counter_count % 2 = 1 THEN neg.target ELSE neg.proposer

\* C36: execute_llm_trade is called at most once per negotiation and only after
\* an accept, with exactly the final proposal, final proposer and final
\* responder that negotiate_trade returned; the give list is looked up in, and
\* taken from, the holdings of the party who made the accepted proposal.
C36_ExecutedOnceAfterAccept ==
    [][ /\ ExecutorCalled =>
              /\ TakesResult /\ result.success /\ LastLine = "accepted"
              /\ move.executed = 0 /\ move'.executed = 1
              /\ trade'.called
              /\ result.final_proposal = {trade'.proposal}
              /\ trade'.proposal = current_proposal
              /\ trade'.proposer = result.final_proposer
              /\ trade'.target = result.final_target
              /\ trade'.proposer = MadeAcceptedProposal
              /\ trade'.ret =>
                    \A i \in 1..Len(trade'.proposal.give) :
                        LET prop == FindOwned(owned[trade'.proposer], trade'.proposal.give[i])
                        IN /\ prop # 0 /\ owner[prop] = trade'.proposer
                           /\ owner'[prop] = trade'.target
        /\ (TakesResult /\ ~result.success) => (~ExecutorCalled /\ trade' = trade)
        /\ trade' # trade => (ExecutorCalled \/ move'.pc = "none")
      ]_vars

\* the counter-offer of LLM2 was accepted by LLM1 and executed with LLM2 as the
\* proposer: the property LLM2 asked for has come to it from LLM1
C36_Witness ==
    /\ move.self = "LLM1" /\ move.executed = 1 /\ move.outcome = "accepted"
    /\ trade.called /\ trade.ret
    /\ trade.proposer = "LLM2" /\ trade.target = "LLM1"
    /\ trade.proposal.receive = <<<<"BOARDWALK">>>>
    /\ trade.pre.owner[2] = "LLM1" /\ owner[2] = "LLM2"

(***************************************************************************)
(* Termination of a send (SpecSendLive).                                   *)
(***************************************************************************)
\* C37: provided each provider call returns or fails, a send_message that has
\* been entered returns, by success, by a fatal error or by exhausting the
\* retries, and up to then it has made at most 6 provider calls and at most 5
\* backoff waits.
C37_SendTerminatesBounded ==
    /\ [](send.provider_calls <= 6 /\ Len(send.waits) <= 5)
    /\ [](send.pc \in {"calling", "sleeping"} => <>(send.pc = "returned"))

\* a send that returned the reply of its sixth provider call, after five waits
C37_Witness ==
    /\ send.pc = "returned" /\ send.ok
    /\ send.provider_calls = 6 /\ Len(send.waits) = 5

(***************************************************************************)
(* What one Log has written (SpecLogCalls).                                *)
(***************************************************************************)
\* the lines of the file that the Log of process g wrote, in file order
Mine(file, g) == SelectSeq(file, LAMBDA line : line.game = g)

\* the most recent call of process g was a flush or a save, and it has returned
FlushedOrSaved(g) == sink.game[g].stage = "call" /\ sink.game[g].op \in {"moves", "done"}

\* C39: what an enabled Log has appended to the file is, at any time, the lines
\* added up to its last write, once each and in the order of adding; when a
\* flush or save has returned these are all the lines added so far, and an add
\* writes nothing.  A disabled Log keeps nothing and writes nothing.
C39_WrittenOnceInOrder ==
    /\ [](\A g \in GameWorkers :
            LET log == sink.game[g].log IN
            /\ Mine(sink.file, g) = SubSeq(log.content, 1, log.flushed_count)
            /\ FlushedOrSaved(g) /\ ~log.disabled => Mine(sink.file, g) = log.content
            /\ log.disabled => Mine(sink.file, g) = <<>>)
    /\ [][\A g \in GameWorkers :
            sink.game'[g].op = "added" /\ sink.game'[g].log # sink.game[g].log =>
                sink.file' = sink.file]_vars

\* process 1 has added, flushed, added twice and saved, process 2 wrote in
\* between; every line of process 1 is in the file
C39_Witness ==
    /\ sink.game[1].op = "done" /\ sink.game[1].stage = "call"
    /\ ~sink.game[1].log.disabled
    /\ Len(sink.game[1].log.content) = 3
    /\ Mine(sink.file, 1) = sink.game[1].log.content
    /\ Len(sink.file) >= 4
    /\ sink.file[2].game = 1 /\ sink.file[3].game = 2 /\ sink.file[4].game = 1

\* a disabled Log after add, flush and save
C39_DisabledWitness ==
    /\ sink.game[2].log.disabled
    /\ sink.game[2].op = "done" /\ sink.game[2].stage = "call"
    /\ sink.game[1].log.flushed_count = 3

====
